---- MODULE Spec2Model ----
(***************************************************************************)
(* Model of the chain data ingestion path of ckb-tx-rocket:                *)
(*   CKBChainVizService.handleMessage  (the event normalizer)              *)
(*   EventBus                          (Phaser / eventemitter3 emitter)    *)
(*   ChainDataManager                  (the aggregation engine)            *)
(*   Game                              (its bus listeners only)            *)
(*   useCKBChainViz                    (the hook: connection state)        *)
(*   ChainVisualizationScene           (create, shutdown, block sprites)   *)
(*                                                                         *)
(* JavaScript values are records [t, s, n]: t is the type tag, s the       *)
(* characters of a string (or the digits of a bigint), n the value of a    *)
(* number.  Hashes are strings of one token (<<"b1">>).                    *)
(*                                                                         *)
(* Specifications: Spec (one message of every type, stray and absent       *)
(* messages, the read accessors and cleanup), SpecBlocks (the block        *)
(* stream), SpecTx (the transaction stream), SpecFeed (a feed of more than *)
(* 100 blocks), SpecBus (the block stream with the Game scene listening    *)
(* next to the engine), SpecShared (a consumer that writes to the records  *)
(* it is handed), SpecHook (the hook connecting and disconnecting the      *)
(* service) and SpecScene (create() and shutdown() of the visualization    *)
(* scene between blocks).                                                  *)
(***************************************************************************)
EXTENDS Integers, Sequences, FiniteSets, TLC

VARIABLES
    listeners,          \* EventBus registry: sequence of [ev, fn], in order of on()
    blocks,             \* ChainDataManager.blocks: Map in insertion order, <<[k, v]>>
    transactions,       \* ChainDataManager.transactions: Map in insertion order
    blockTimestamps,    \* ChainDataManager.blockTimestamps
    transactionCounts,  \* ChainDataManager.transactionCounts
    cleanupCalls,       \* number of calls of ChainDataManager.cleanup() so far
    socket,             \* CKBChainVizService.socket: "null" or "socket"
    isConnected,        \* CKBChainVizService.isConnected
    hook,               \* useCKBChainViz: its state and the position of connect()
    scene,              \* ChainVisualizationScene: isSceneReady, engines made, sprites
    lastOp,             \* the operation that ran last, with its input
    emitted,            \* bus events published while lastOp ran, in order
    thrown,             \* exceptions of lastOp: [handler, escaped]
    received,           \* listeners that were called while lastOp ran, in order
    arrivals,           \* history: [ts, count] of every block processed without error
    lastStatus          \* history: hash -> status of the latest transaction event

vars == <<listeners, blocks, transactions, blockTimestamps, transactionCounts,
          cleanupCalls, socket, isConnected, hook, scene,
          lastOp, emitted, thrown, received, arrivals, lastStatus>>

----------------------------------------------------------------------------
(* Bounds of the model *)

MaxBlocks == 3
MaxCleanups == 2
MaxFeed == 104
MaxEngines == 3

(* Program constants *)

WindowLimit == 100
ThroughputWindow == 10
HashRateWindow == 10
VisualizedBlocks == 50
VisualizedTransactions == 100
DefaultBlockCount == 10
DefaultTransactionCount == 20
ContainerLimit == 20
RecentBlocksKept == 9
ListKept == 99
RecentTransactionsKept == 49

----------------------------------------------------------------------------
(* JavaScript values *)

Undef == [t |-> "undefined", s |-> <<>>, n |-> 0]
NaN == [t |-> "NaN", s |-> <<>>, n |-> 0]
Str(cs) == [t |-> "string", s |-> cs, n |-> 0]
Num(k) == [t |-> "number", s |-> <<>>, n |-> k]
Big(ds) == [t |-> "bigint", s |-> ds, n |-> 0]

Digits == <<"0", "1", "2", "3", "4", "5", "6", "7", "8", "9">>
IsDigit(c) == \E i \in 1..10 : Digits[i] = c
DigitVal(c) == (CHOOSE i \in 1..10 : Digits[i] = c) - 1
IsSpace(c) == c = " "

RECURSIVE TrimLeft(_)
TrimLeft(cs) ==
    IF cs # <<>> /\ IsSpace(Head(cs)) THEN TrimLeft(Tail(cs)) ELSE cs

RECURSIVE TrimRight(_)
TrimRight(cs) ==
    IF cs # <<>> /\ IsSpace(cs[Len(cs)])
    THEN TrimRight(SubSeq(cs, 1, Len(cs) - 1)) ELSE cs

RECURSIVE StripZeros(_)
StripZeros(ds) ==
    IF Len(ds) > 1 /\ Head(ds) = "0" THEN StripZeros(Tail(ds)) ELSE ds

(* x || '0' : undefined, NaN, the empty string and 0 are falsy *)
Falsy(v) ==
    \/ v.t \in {"undefined", "NaN"}
    \/ v.t = "string" /\ v.s = <<>>
    \/ v.t = "number" /\ v.n = 0

(* An optional sign in front of the digits *)
SignOf(cs) == IF cs # <<>> /\ Head(cs) \in {"-", "+"} THEN Head(cs) ELSE ""
Unsigned(cs) == IF SignOf(cs) = "" THEN cs ELSE Tail(cs)

(* BigInt(v) for a string (the only type block.reward || '0' has for the  *)
(* payloads of the model; undefined throws TypeError): StringToBigInt     *)
(* trims white space, reads the empty string as 0n and throws SyntaxError *)
(* on anything that is not an optionally signed run of decimal digits;    *)
(* the value is kept as its digits without leading zeros, so it has no    *)
(* width.                                                                 *)
BigSigned(neg, mag) ==
    IF neg /\ mag # <<"0">> THEN Big(<<"-">> \o mag) ELSE Big(mag)

BigMagnitude(neg, ds) ==
    IF ds = <<>> \/ \E i \in 1..Len(ds) : ~IsDigit(ds[i])
    THEN [ok |-> FALSE, val |-> Undef]
    ELSE [ok |-> TRUE, val |-> BigSigned(neg, StripZeros(ds))]

StringToBigInt(cs) ==
    IF cs = <<>> THEN [ok |-> TRUE, val |-> Big(<<"0">>)]
    ELSE BigMagnitude(SignOf(cs) = "-", Unsigned(cs))

(* Mutant: the value goes through a double, which keeps 15 digits *)
BigIntViaNumber(v) ==
    IF v.t # "string" THEN [ok |-> FALSE, val |-> Undef]
    ELSE [StringToBigInt(TrimRight(TrimLeft(v.s))) EXCEPT
              !.val.s = [i \in 1..Len(@) |-> IF i > 15 THEN "0" ELSE @[i]]]

BigIntOf(v) ==
    IF v.t # "string" THEN [ok |-> FALSE, val |-> Undef]
    ELSE StringToBigInt(TrimRight(TrimLeft(v.s)))

(* parseInt(v): the longest prefix of decimal digits after white space and *)
(* an optional sign; NaN when there is none (also for undefined, which is  *)
(* first turned into the string "undefined").                              *)
RECURSIVE DigitPrefixVal(_, _)
DigitPrefixVal(cs, acc) ==
    IF cs # <<>> /\ IsDigit(Head(cs))
    THEN DigitPrefixVal(Tail(cs), acc * 10 + DigitVal(Head(cs)))
    ELSE acc

StringToInt(neg, ds) ==
    IF ds = <<>> \/ ~IsDigit(Head(ds)) THEN NaN
    ELSE IF neg THEN Num(0 - DigitPrefixVal(ds, 0))
    ELSE Num(DigitPrefixVal(ds, 0))

ParseIntChars(cs) == StringToInt(SignOf(cs) = "-", Unsigned(cs))

parseInt(v) ==
    IF v.t = "number" THEN Num(v.n)
    ELSE IF v.t # "string" THEN NaN
    ELSE ParseIntChars(TrimLeft(v.s))

(* new Date(v).getTime().  A number is the time value itself.  A string   *)
(* goes through Date.parse: <<"iso">> stands for the ISO-8601 text of the  *)
(* instant n, which parses to n; <<"ms">> stands for the decimal text of   *)
(* the epoch-milliseconds value n (13 digits), which Date.parse does not   *)
(* accept.  undefined gives an invalid date.                               *)
IsoStr(k) == [t |-> "string", s |-> <<"iso">>, n |-> k]
MsStr(k) == [t |-> "string", s |-> <<"ms">>, n |-> k]

DateTime(v) ==
    IF v.t = "number" THEN Num(v.n)
    ELSE IF v.t = "string" /\ v.s = <<"iso">> THEN Num(v.n)
    ELSE NaN

----------------------------------------------------------------------------
(* Map<K, V> in insertion order: set() of a held key replaces the value in *)
(* place, set() of a new key appends, delete() removes the entry.          *)

MapHas(m, k) == \E i \in 1..Len(m) : m[i].k = k
MapIndex(m, k) == CHOOSE i \in 1..Len(m) : m[i].k = k
MapGet(m, k) == IF MapHas(m, k) THEN m[MapIndex(m, k)].v ELSE Undef
MapKeys(m) == {m[i].k : i \in 1..Len(m)}

(* Mutant: set() of a held key keeps the value held *)
MapSetKeep(m, k, v) ==
    IF MapHas(m, k) THEN m ELSE Append(m, [k |-> k, v |-> v])

(* Mutant: set() of a held key moves the entry to the end *)
MapSetMove(m, k, v) ==
    Append(SelectSeq(m, LAMBDA e : e.k # k), [k |-> k, v |-> v])

(* Mutant: set() appends also under a held key *)
MapSetAppend(m, k, v) == Append(m, [k |-> k, v |-> v])

MapSet(m, k, v) ==
    IF MapHas(m, k)
    THEN [m EXCEPT ![MapIndex(m, k)] = [k |-> k, v |-> v]]
    ELSE Append(m, [k |-> k, v |-> v])

MapDelete(m, k) ==
    IF MapHas(m, k)
    THEN LET i == MapIndex(m, k)
         IN  SubSeq(m, 1, i - 1) \o SubSeq(m, i + 1, Len(m))
    ELSE m

----------------------------------------------------------------------------
(* Payloads.  present = FALSE is an absent (undefined) payload: reading a  *)
(* property of it throws TypeError.  A missing field is Undef.             *)

Block(hash, number, ts, miner, reward, count) ==
    [present |-> TRUE, blockHash |-> hash, blockNumber |-> number,
     timestamp |-> ts, miner |-> miner, reward |-> reward,
     transactionCount |-> count]

AbsentBlock ==
    [present |-> FALSE, blockHash |-> Undef, blockNumber |-> Undef,
     timestamp |-> Undef, miner |-> Undef, reward |-> Undef,
     transactionCount |-> Undef]

Tx(hash, ts, status) ==
    [present |-> TRUE, txHash |-> hash, timestamp |-> ts, status |-> status]

AbsentTx ==
    [present |-> FALSE, txHash |-> Undef, timestamp |-> Undef, status |-> "none"]

B1 == Str(<<"b1">>)
B2 == Str(<<"b2">>)
T1 == Str(<<"t1">>)
T2 == Str(<<"t2">>)
Miner == Str(<<"ckb1miner">>)

----------------------------------------------------------------------------
(* ChainDataManager *)

Engine ==
    [blocks |-> blocks, transactions |-> transactions,
     blockTimestamps |-> blockTimestamps,
     transactionCounts |-> transactionCounts]

(* The engine as its constructor leaves it *)
FreshEngine ==
    [blocks |-> <<>>, transactions |-> <<>>,
     blockTimestamps |-> <<>>, transactionCounts |-> <<>>]

(* A bus event as published: who emitted it and with which argument *)
Event(ev, by, arg) == [ev |-> ev, by |-> by, arg |-> arg]

(* The result of running a handler: the engine afterwards, the events it  *)
(* published and whether an exception left the handler; escaped tells     *)
(* whether an exception left handleMessage, ran lists the listeners that   *)
(* were called.                                                            *)
Result(e, out, threw) ==
    [e |-> e, out |-> out, threw |-> threw, escaped |-> FALSE, ran |-> <<>>]

(* Mutant: the difficulty is populated *)
ProcessedBlockDifficulty(block, total) ==
    [ok |-> total.ok,
     val |-> [hash |-> block.blockHash,
              number |-> parseInt(block.blockNumber),
              timestamp |-> DateTime(block.timestamp),
              transactionCount |-> block.transactionCount,
              totalValue |-> total.val,
              size |-> Num(0),
              miner |-> block.miner,
              difficulty |-> Num(100000)]]

(* Mutant: a number that is no integer is an error *)
ProcessedBlockStrict(block, total) ==
    [ok |-> total.ok /\ parseInt(block.blockNumber) # NaN,
     val |-> [hash |-> block.blockHash,
              number |-> parseInt(block.blockNumber),
              timestamp |-> DateTime(block.timestamp),
              transactionCount |-> block.transactionCount,
              totalValue |-> total.val,
              size |-> Num(0),
              miner |-> block.miner,
              difficulty |-> Num(0)]]

ProcessedBlock(block, total) ==
    [ok |-> total.ok,
     val |-> [hash |-> block.blockHash,
              number |-> parseInt(block.blockNumber),
              timestamp |-> DateTime(block.timestamp),
              transactionCount |-> block.transactionCount,
              totalValue |-> total.val,
              size |-> Num(0),
              miner |-> block.miner,
              difficulty |-> Num(0)]]

processBlock(block) ==
    ProcessedBlock(block,
        BigIntOf(IF Falsy(block.reward) THEN Str(<<"0">>) ELSE block.reward))

processTransaction(transaction) ==
    [hash |-> transaction.txHash,
     status |-> transaction.status,
     value |-> Big(<<"0">>),
     fee |-> Big(<<"0">>),
     inputCount |-> Num(0),
     outputCount |-> Num(0),
     size |-> Num(0),
     timestamp |-> DateTime(transaction.timestamp)]

(* Mutant: the window is never shifted *)
ShiftOverNever(pushed) == pushed

(* push(x) followed by shift() once the length exceeds the limit *)
ShiftOver(pushed) ==
    IF Len(pushed) > WindowLimit THEN Tail(pushed) ELSE pushed

PushWindow(w, x) == ShiftOver(Append(w, x))

(* The sum of the intervals w[i] - w[i-1] for i in lo..hi, by halves *)
RECURSIVE SumIntervals(_, _, _)
SumIntervals(w, lo, hi) ==
    IF lo > hi THEN 0
    ELSE IF lo = hi THEN w[lo].n - w[lo - 1].n
    ELSE SumIntervals(w, lo, (lo + hi) \div 2)
             + SumIntervals(w, (lo + hi) \div 2 + 1, hi)

(* Mutant: a window of one entry is averaged too (0 / 0) *)
AverageOfOne(w) ==
    IF Len(w) < 1 THEN [nan |-> FALSE, num |-> 0, den |-> 1]
    ELSE IF \E i \in 1..Len(w) : w[i].t = "NaN"
    THEN [nan |-> TRUE, num |-> 0, den |-> 1]
    ELSE [nan |-> FALSE, num |-> SumIntervals(w, 2, Len(w)),
          den |-> (Len(w) - 1) * 1000]

(* Average block time in seconds, as the fraction num / den (the code      *)
(* divides the sum of the intervals by their number and by 1000); NaN when *)
(* a time value in the window is NaN.                                      *)
AverageOf(w) ==
    IF Len(w) < 2 THEN [nan |-> FALSE, num |-> 0, den |-> 1]
    ELSE IF \E i \in 1..Len(w) : w[i].t = "NaN"
    THEN [nan |-> TRUE, num |-> 0, den |-> 1]
    ELSE [nan |-> FALSE, num |-> SumIntervals(w, 2, Len(w)),
          den |-> (Len(w) - 1) * 1000]

calculateAverageBlockTime(e) == AverageOf(e.blockTimestamps)

(* 6 * x keeps the denominator *)
TimesSix(avg) == [avg EXCEPT !.num = avg.num * 6]

calculateAverageConfirmationTime(e) == TimesSix(calculateAverageBlockTime(e))

(* array.slice(-n) *)
LastN(w, n) == SubSeq(w, IF Len(w) > n THEN Len(w) - n + 1 ELSE 1, Len(w))

(* reduce((sum, x) => sum + x, 0) over numbers *)
RECURSIVE SumOf(_)
SumOf(xs) == IF xs = <<>> THEN 0 ELSE Head(xs).n + SumOf(Tail(xs))

(* Mutant: the sum is divided by 10 average intervals whatever the number *)
(* of counts                                                              *)
ThroughputOfTen(recentCounts, avg) ==
    IF avg.nan \/ avg.num <= 0 THEN [nan |-> FALSE, num |-> 0, den |-> 1]
    ELSE IF \E i \in 1..Len(recentCounts) : recentCounts[i].t # "number"
    THEN [nan |-> TRUE, num |-> 0, den |-> 1]
    ELSE [nan |-> FALSE, num |-> SumOf(recentCounts) * avg.den,
          den |-> 10 * avg.num]

(* avgBlockTime > 0 ? totalTx / (recentCounts.length * avgBlockTime) : 0,  *)
(* as a fraction; NaN > 0 is false, and a count that is no number makes    *)
(* the sum NaN.                                                            *)
ThroughputOf(recentCounts, avg) ==
    IF avg.nan \/ avg.num <= 0 THEN [nan |-> FALSE, num |-> 0, den |-> 1]
    ELSE IF \E i \in 1..Len(recentCounts) : recentCounts[i].t # "number"
    THEN [nan |-> TRUE, num |-> 0, den |-> 1]
    ELSE [nan |-> FALSE, num |-> SumOf(recentCounts) * avg.den,
          den |-> Len(recentCounts) * avg.num]

calculateTransactionThroughput(e) ==
    IF Len(e.transactionCounts) = 0 THEN [nan |-> FALSE, num |-> 0, den |-> 1]
    ELSE ThroughputOf(LastN(e.transactionCounts, ThroughputWindow),
                      calculateAverageBlockTime(e))

(* The decimal digits of a natural number *)
RECURSIVE NatDigits(_)
NatDigits(k) ==
    IF k < 10 THEN <<Digits[k + 1]>>
    ELSE Append(NatDigits(k \div 10), Digits[(k % 10) + 1])

(* avgBlockTime > 0 ? BigInt(Math.floor(avgDifficulty / avgBlockTime))     *)
(* : BigInt(0), avgDifficulty being the sum of the difficulties by their   *)
(* number                                                                  *)
HashRateOf(recentBlocks, avg) ==
    IF avg.nan \/ avg.num <= 0 THEN Big(<<"0">>)
    ELSE Big(NatDigits((SumOf([i \in 1..Len(recentBlocks) |->
                                  recentBlocks[i].v.difficulty]) * avg.den)
                           \div (Len(recentBlocks) * avg.num)))

estimateHashRate(e) ==
    IF Len(e.blocks) = 0 THEN Big(<<"0">>)
    ELSE HashRateOf(LastN(e.blocks, HashRateWindow), calculateAverageBlockTime(e))

(* Mutant: every record that is not CONFIRMED counts as pending *)
getPendingTransactionsNotConfirmed(e) ==
    SelectSeq(e.transactions, LAMBDA kv : kv.v.status # "CONFIRMED")

getPendingTransactions(e) ==
    SelectSeq(e.transactions, LAMBDA kv : kv.v.status = "PENDING")

getMetrics(e) ==
    [averageBlockTime |-> calculateAverageBlockTime(e),
     transactionThroughput |-> calculateTransactionThroughput(e),
     networkHashRate |-> estimateHashRate(e),
     pendingTxCount |->
         Len(SelectSeq(e.transactions, LAMBDA kv : kv.v.status = "PENDING")),
     confirmationTime |-> calculateAverageConfirmationTime(e)]

getBlockByHash(e, hash) == MapGet(e.blocks, hash)
getTransactionByHash(e, hash) == MapGet(e.transactions, hash)

(* What a read accessor did: the engine afterwards and the value returned *)
Returned(e, ret) == [e |-> e, ret |-> ret]

(* Array.from(map.values()) *)
Values(m) == [i \in 1..Len(m) |-> m[i].v]

(* The values with the key they are sorted by *)
Keyed(vs, field) == [i \in 1..Len(vs) |-> [key |-> vs[i][field], v |-> vs[i]]]

(* sort((a, b) => b.key - a.key) as a stable insertion sort: an element   *)
(* moves in front of those with a smaller key; a difference that is NaN    *)
(* reads as 0 and moves nothing.                                           *)
RECURSIVE InsertDesc(_, _)
InsertDesc(sorted, x) ==
    IF /\ sorted # <<>>
       /\ sorted[Len(sorted)].key.t = "number"
       /\ x.key.t = "number"
       /\ sorted[Len(sorted)].key.n < x.key.n
    THEN Append(InsertDesc(SubSeq(sorted, 1, Len(sorted) - 1), x),
                sorted[Len(sorted)])
    ELSE Append(sorted, x)

RECURSIVE SortDesc(_)
SortDesc(xs) ==
    IF xs = <<>> THEN <<>>
    ELSE InsertDesc(SortDesc(SubSeq(xs, 1, Len(xs) - 1)), xs[Len(xs)])

(* slice(0, count) of the sorted copy, without the keys *)
Slice(sorted, count) ==
    [i \in 1..(IF Len(sorted) < count THEN Len(sorted) ELSE count) |-> sorted[i].v]

(* The sort works on the array made by Array.from, not on the map *)
getRecentBlocks(e, count) ==
    Returned(e, Slice(SortDesc(Keyed(Values(e.blocks), "number")), count))

(* Mutant: the map is cut down to the number of records asked for *)
getRecentTransactionsSplice(e, count) ==
    Returned([e EXCEPT !.transactions =
                  SubSeq(@, 1, IF Len(@) < count THEN Len(@) ELSE count)],
             Slice(SortDesc(Keyed(Values(e.transactions), "timestamp")), count))

(* filter((tx) => tx.timestamp) keeps every record: the timestamp is a    *)
(* Date object, also when it is an invalid date                            *)
getRecentTransactions(e, count) ==
    Returned(e, Slice(SortDesc(Keyed(Values(e.transactions), "timestamp")), count))

(* Mutant: the first 50 and the first 100 records *)
getVisualizationDataFirst(e) ==
    [blocks |-> SubSeq(Values(e.blocks), 1,
                       IF Len(e.blocks) < VisualizedBlocks
                       THEN Len(e.blocks) ELSE VisualizedBlocks),
     transactions |-> SubSeq(Values(e.transactions), 1,
                             IF Len(e.transactions) < VisualizedTransactions
                             THEN Len(e.transactions) ELSE VisualizedTransactions),
     metrics |-> getMetrics(e)]

getVisualizationData(e) ==
    [blocks |-> LastN(Values(e.blocks), VisualizedBlocks),
     transactions |-> LastN(Values(e.transactions), VisualizedTransactions),
     metrics |-> getMetrics(e)]

(* A call of a public read accessor *)
Query(e, op, arg) ==
    CASE op = "getMetrics" -> Returned(e, getMetrics(e))
      [] op = "getVisualizationData" -> Returned(e, getVisualizationData(e))
      [] op = "getPendingTransactions" -> Returned(e, getPendingTransactions(e))
      [] op = "getRecentBlocks" ->
             getRecentBlocks(e, IF arg = Undef THEN DefaultBlockCount ELSE arg.n)
      [] op = "getRecentTransactions" ->
             getRecentTransactions(e, IF arg = Undef THEN DefaultTransactionCount
                                      ELSE arg.n)
      [] op = "getBlockByHash" -> Returned(e, getBlockByHash(e, arg))
      [] op = "getTransactionByHash" -> Returned(e, getTransactionByHash(e, arg))

(* The two emits that end the try block of handleNewBlock.  The listeners *)
(* of these two events belong to the scene, which is outside this model,   *)
(* so the emits only publish.                                              *)
PublishBlock(e, processedBlock) ==
    Result(e,
           <<Event("processed-block-data", "engine", processedBlock),
             Event("chain-metrics-updated", "engine", getMetrics(e))>>,
           FALSE)

(* Mutant: the processed block is published but not stored *)
StoreBlockNot(e, hash, processedBlock) ==
    PublishBlock([e EXCEPT
                     !.blockTimestamps = PushWindow(@, processedBlock.timestamp),
                     !.transactionCounts = PushWindow(@, processedBlock.transactionCount)],
                 processedBlock)

(* Mutant: the two events are made before the collections are updated *)
StoreBlockLate(e, hash, processedBlock) ==
    [PublishBlock(e, processedBlock) EXCEPT
         !.e = [e EXCEPT
                    !.blocks = MapSet(@, hash, processedBlock),
                    !.blockTimestamps = PushWindow(@, processedBlock.timestamp),
                    !.transactionCounts = PushWindow(@, processedBlock.transactionCount)]]

(* Mutant: the windows take a block only when its hash is new *)
StoreBlockDistinct(e, hash, processedBlock) ==
    PublishBlock([e EXCEPT
                     !.blocks = MapSet(@, hash, processedBlock),
                     !.blockTimestamps =
                         IF MapHas(e.blocks, hash) THEN @
                         ELSE PushWindow(@, processedBlock.timestamp),
                     !.transactionCounts =
                         IF MapHas(e.blocks, hash) THEN @
                         ELSE PushWindow(@, processedBlock.transactionCount)],
                 processedBlock)

(* blocks.set, the two window updates and the emits *)
StoreBlock(e, hash, processedBlock) ==
    PublishBlock([e EXCEPT
                     !.blocks = MapSet(@, hash, processedBlock),
                     !.blockTimestamps = PushWindow(@, processedBlock.timestamp),
                     !.transactionCounts = PushWindow(@, processedBlock.transactionCount)],
                 processedBlock)

(* The try block after processBlock returned or threw *)
AfterProcessBlock(e, hash, p) ==
    IF ~p.ok THEN Result(e, <<>>, FALSE) ELSE StoreBlock(e, hash, p.val)

(* handleNewBlock: the try block reads block.blockHash first, and so does *)
(* the catch block; with an absent payload the second read throws out of  *)
(* the handler.                                                           *)
handleNewBlock(e, block) ==
    IF ~block.present THEN Result(e, <<>>, TRUE)
    ELSE AfterProcessBlock(e, block.blockHash, processBlock(block))

(* handleTransactionUpdate: as handleNewBlock, the catch block reads      *)
(* transaction.txHash again.                                               *)
StoreTransaction(e, hash, processedTx) ==
    Result([e EXCEPT !.transactions = MapSet(@, hash, processedTx)],
           <<Event("processed-transaction-data", "engine", processedTx)>>,
           FALSE)

handleTransactionUpdate(e, transaction) ==
    IF ~transaction.present THEN Result(e, <<>>, TRUE)
    ELSE StoreTransaction(e, transaction.txHash, processTransaction(transaction))

(* Mutant: a rejection clears the whole map *)
handleTransactionRejectedClear(e, transaction) ==
    IF ~transaction.present THEN Result(e, <<>>, TRUE)
    ELSE Result([e EXCEPT !.transactions = <<>>],
                <<Event("transaction-removed", "engine", transaction.txHash)>>,
                FALSE)

(* Mutant: the removal is announced, the record is kept *)
handleTransactionRejectedKeep(e, transaction) ==
    IF ~transaction.present THEN Result(e, <<>>, TRUE)
    ELSE Result(e, <<Event("transaction-removed", "engine", transaction.txHash)>>, FALSE)

(* handleTransactionRejected has no try block *)
handleTransactionRejected(e, transaction) ==
    IF ~transaction.present THEN Result(e, <<>>, TRUE)
    ELSE Result([e EXCEPT !.transactions = MapDelete(@, transaction.txHash)],
                <<Event("transaction-removed", "engine", transaction.txHash)>>,
                FALSE)

----------------------------------------------------------------------------
(* EventBus: an eventemitter3 emitter.  A listener is the function object *)
(* that was passed to on(); fn.bind(this) makes a new function object on   *)
(* every call, told apart here by the number of the bind.                  *)

EngineEvents ==
    <<[ev |-> "block-finalized", method |-> "handleNewBlock"],
      [ev |-> "transaction-pending", method |-> "handleTransactionUpdate"],
      [ev |-> "transaction-proposed", method |-> "handleTransactionUpdate"],
      [ev |-> "transaction-confirmed", method |-> "handleTransactionUpdate"],
      [ev |-> "transaction-rejected", method |-> "handleTransactionRejected"]>>

(* Game.setupChainEventListeners: five arrow functions.  The listener of  *)
(* block-finalized calls updateBlockInfo; the others write the transaction *)
(* counts and the connection status on the overlay, which are not part of *)
(* this model, and read nothing of their argument.                         *)
GameEvents ==
    <<[ev |-> "block-finalized", method |-> "updateBlockInfo"],
      [ev |-> "transaction-pending", method |-> "updateTransactionInfo"],
      [ev |-> "transaction-proposed", method |-> "updateTransactionInfo"],
      [ev |-> "transaction-confirmed", method |-> "updateTransactionInfo"],
      [ev |-> "chainviz-disconnected", method |-> "connectionStatusText"]>>

Arrow(method, i) == [owner |-> "game", method |-> method, bind |-> i]

(* this.<method>.bind(this): the i-th function bound after `binds` others *)
Bound(method, binds, i) ==
    [owner |-> "engine", method |-> method, bind |-> binds + i]

on(ls, ev, fn) == Append(ls, [ev |-> ev, fn |-> fn])

(* Mutant: on() where off() was meant *)
offAsOn(ls, ev, fn) == Append(ls, [ev |-> ev, fn |-> fn])

(* off(ev, fn) keeps every listener of ev whose function is not fn *)
off(ls, ev, fn) == SelectSeq(ls, LAMBDA l : ~(l.ev = ev /\ l.fn = fn))

RECURSIVE setupEventListeners(_, _, _)
setupEventListeners(ls, binds, i) ==
    IF i > Len(EngineEvents) THEN ls
    ELSE setupEventListeners(
             on(ls, EngineEvents[i].ev, Bound(EngineEvents[i].method, binds, i)),
             binds, i + 1)

RECURSIVE setupChainEventListeners(_, _)
setupChainEventListeners(ls, i) ==
    IF i > Len(GameEvents) THEN ls
    ELSE setupChainEventListeners(
             on(ls, GameEvents[i].ev, Arrow(GameEvents[i].method, i)), i + 1)

RECURSIVE cleanup(_, _, _)
cleanup(ls, binds, i) ==
    IF i > Len(EngineEvents) THEN ls
    ELSE cleanup(
             off(ls, EngineEvents[i].ev, Bound(EngineEvents[i].method, binds, i)),
             binds, i + 1)

(* The six listeners the effect of useCKBChainViz registers *)
HookEvents ==
    <<[ev |-> "chainviz-disconnected", method |-> "handleDisconnected"],
      [ev |-> "block-finalized", method |-> "handleBlockFinalized"],
      [ev |-> "transaction-pending", method |-> "handleTransactionPending"],
      [ev |-> "transaction-proposed", method |-> "handleTransactionProposed"],
      [ev |-> "transaction-confirmed", method |-> "handleTransactionConfirmed"],
      [ev |-> "transaction-rejected", method |-> "handleTransactionRejected"]>>

RECURSIVE useEffectListeners(_, _)
useEffectListeners(ls, i) ==
    IF i > Len(HookEvents) THEN ls
    ELSE useEffectListeners(
             on(ls, HookEvents[i].ev,
                [owner |-> "hook", method |-> HookEvents[i].method, bind |-> i]),
             i + 1)

(* off(ev) without a function removes every listener of ev *)
offEvery(ls, ev) == SelectSeq(ls, LAMBDA l : l.ev # ev)

(* What a listener did, after what the listeners before it did *)
After(r, h) == [r EXCEPT !.e = h.e, !.out = r.out \o h.out, !.threw = h.threw]

(* Game.updateBlockInfo, the Game scene's listener of block-finalized: it *)
(* reads block.timestamp, block.blockHash.slice and block.miner.slice      *)
(* outside any try block and writes the texts of the overlay, which are    *)
(* not part of this model.                                                 *)
updateBlockInfo(r, block) ==
    [r EXCEPT !.threw = \/ ~block.present
                        \/ block.blockHash.t # "string"
                        \/ block.miner.t # "string"]

(* The listeners of an engine the scene has replaced by a new one: the    *)
(* functions stay what they are, bound to the replaced engine, whose maps  *)
(* and windows are no longer part of the state.                            *)
Retire(ls) ==
    [i \in 1..Len(ls) |->
        IF ls[i].fn.owner = "engine"
        THEN [ls[i] EXCEPT !.fn.owner = "oldEngine"]
        ELSE ls[i]]

(* What a handler of a replaced engine did: it publishes as every engine   *)
(* does, from maps of its own; its metrics are not tracked.                *)
DroppedCall(fn, r, arg) ==
    LET h == CASE fn.method = "handleNewBlock" -> handleNewBlock(FreshEngine, arg)
               [] fn.method = "handleTransactionUpdate" ->
                      handleTransactionUpdate(FreshEngine, arg)
               [] fn.method = "handleTransactionRejected" ->
                      handleTransactionRejected(FreshEngine, arg)
    IN  [r EXCEPT
           !.out = @ \o [i \in 1..Len(h.out) |->
                            IF h.out[i].ev = "chain-metrics-updated"
                            THEN [h.out[i] EXCEPT !.arg = [untracked |-> TRUE]]
                            ELSE h.out[i]],
           !.threw = h.threw]

(* Calling one listener on the argument of the event *)
Call(fn, r, arg) ==
    CASE fn.owner = "engine" /\ fn.method = "handleNewBlock" ->
             After(r, handleNewBlock(r.e, arg))
      [] fn.owner = "engine" /\ fn.method = "handleTransactionUpdate" ->
             After(r, handleTransactionUpdate(r.e, arg))
      [] fn.owner = "engine" /\ fn.method = "handleTransactionRejected" ->
             After(r, handleTransactionRejected(r.e, arg))
      [] fn.owner = "oldEngine" -> DroppedCall(fn, r, arg)
      [] fn.method = "updateBlockInfo" -> updateBlockInfo(r, arg)
      [] OTHER -> r

(* emit(ev, arg): the listeners of ev run in the order of their on(), each *)
(* to completion; an exception of a listener leaves emit at once.          *)
RECURSIVE Deliver(_, _, _, _)
Deliver(ls, ev, arg, r) ==
    IF ls = <<>> \/ r.threw THEN r
    ELSE IF Head(ls).ev = ev
    THEN Deliver(Tail(ls), ev, arg,
                 Call(Head(ls).fn, [r EXCEPT !.ran = Append(@, Head(ls).fn)], arg))
    ELSE Deliver(Tail(ls), ev, arg, r)

emit(ls, e, ev, arg) ==
    Deliver(ls, ev, arg, Result(e, <<Event(ev, "service", arg)>>, FALSE))

----------------------------------------------------------------------------
(* CKBChainVizService.handleMessage *)

Message(channel, type, payload) ==
    [present |-> TRUE, channel |-> channel, type |-> type, payload |-> payload]

(* A message event without data: the listener is called with undefined *)
AbsentMessage ==
    [present |-> FALSE, channel |-> "undefined", type |-> "undefined",
     payload |-> AbsentBlock]

(* Mutant: { status, ...payload }, a status of the payload wins *)
WithStatusFirst(payload, status) ==
    IF ~payload.present THEN Tx(Undef, Undef, status)
    ELSE IF payload.status = "none" THEN [payload EXCEPT !.status = status]
    ELSE payload

(* { ...payload, status }: spreading undefined gives no property *)
WithStatus(payload, status) ==
    IF payload.present THEN [payload EXCEPT !.status = status]
    ELSE Tx(Undef, Undef, status)

TxTypes ==
    {"transaction.pending", "transaction.proposed",
     "transaction.confirmed", "transaction.rejected"}

StatusOf(type) ==
    CASE type = "transaction.pending" -> "PENDING"
      [] type = "transaction.proposed" -> "PROPOSED"
      [] type = "transaction.confirmed" -> "CONFIRMED"
      [] type = "transaction.rejected" -> "REJECTED"

EventOf(type) ==
    CASE type = "block.finalized" -> "block-finalized"
      [] type = "transaction.pending" -> "transaction-pending"
      [] type = "transaction.proposed" -> "transaction-proposed"
      [] type = "transaction.confirmed" -> "transaction-confirmed"
      [] type = "transaction.rejected" -> "transaction-rejected"

(* Mutant: the default branch publishes the payload *)
handleMessageDefaultEmits(ls, e, data) ==
    IF ~data.present THEN [Result(e, <<>>, FALSE) EXCEPT !.escaped = TRUE]
    ELSE IF data.type = "block.finalized"
    THEN emit(ls, e, "block-finalized", data.payload)
    ELSE IF data.type \in TxTypes
    THEN emit(ls, e, EventOf(data.type), WithStatus(data.payload, StatusOf(data.type)))
    ELSE emit(ls, e, "unknown-message", data.payload)

(* const { channel, type, payload } = data stands before the try block:  *)
(* with no data it throws TypeError out of handleMessage.  Then the switch *)
(* on type inside the try block; data.channel is read for the log line    *)
(* only.  The catch block logs and returns, so an exception of a listener  *)
(* does not escape; threw tells whether a listener threw.                  *)
handleMessage(ls, e, data) ==
    IF ~data.present THEN [Result(e, <<>>, FALSE) EXCEPT !.escaped = TRUE]
    ELSE IF data.type = "block.finalized"
    THEN emit(ls, e, "block-finalized", data.payload)
    ELSE IF data.type \in TxTypes
    THEN emit(ls, e, EventOf(data.type), WithStatus(data.payload, StatusOf(data.type)))
    ELSE Result(e, <<>>, FALSE)

----------------------------------------------------------------------------
(* Inputs of the model *)

GoodB1 == Block(B1, Str(<<"1">>), IsoStr(10), Miner, Str(<<"7">>), Num(2))
GoodB2 == Block(B2, Str(<<"2">>), IsoStr(20), Miner, Str(<<"1", "2">>), Num(3))
AgainB1 == Block(B1, Str(<<"3">>), IsoStr(45), Miner, Undef, Num(5))
NoHashBlock == Block(Undef, Str(<<"4">>), MsStr(30), Miner, Str(<<"7">>), Num(1))
BadRewardBlock == Block(B2, Str(<<"5">>), IsoStr(50), Miner, Str(<<"a", "b", "c">>), Num(4))

(* Blocks with the timestamp as the source sends it: epoch milliseconds *)
(* as a string; 10 s and 15 s apart                                     *)
MsBlocks ==
    {Block(B1, Str(<<"6">>), MsStr(100000), Miner, Str(<<"7">>), Num(2)),
     Block(B2, Str(<<"7">>), MsStr(110000), Miner, Str(<<"7">>), Num(5)),
     Block(B1, Str(<<"8">>), MsStr(125000), Miner, Str(<<"7">>), Num(7))}

WellFormedBlocks == {GoodB1, GoodB2, AgainB1}
MalformedBlocks == {NoHashBlock, BadRewardBlock, AbsentBlock}
BlockPayloads == WellFormedBlocks \cup MalformedBlocks

TxPayloads ==
    {Tx(T1, IsoStr(10), "none"), Tx(T2, IsoStr(20), "CONFIRMED"), AbsentTx}

TxKeys == {T1, T2, Undef}

BlockMessages == {Message("chain", "block.finalized", p) : p \in BlockPayloads}
TxMessages == {Message("transactions", ty, p) : ty \in TxTypes, p \in TxPayloads}
UnknownMessages ==
    {Message("chain", "block.proposed", GoodB1),
     Message("transactions", "transaction.unknown", Tx(T1, IsoStr(10), "none"))}

(* Messages of a known type on a channel the service does not know *)
StrayMessages ==
    {Message("metrics", "block.finalized", GoodB1),
     Message("metrics", "transaction.pending", Tx(T2, IsoStr(20), "CONFIRMED"))}

SampleMessages ==
    {Message("chain", "block.finalized", p) : p \in {GoodB1, AbsentBlock}}
    \cup {Message("transactions", ty, p) :
              ty \in TxTypes, p \in {Tx(T2, IsoStr(20), "CONFIRMED"), AbsentTx}}
    \cup {Message("chain", "block.proposed", GoodB1)}
    \cup StrayMessages
    \cup {AbsentMessage}

NoMessage == Message("none", "none", AbsentBlock)

(* The calls of the read accessors: a count (undefined for the default) or *)
(* a hash                                                                  *)
Queries ==
    {[op |-> op, arg |-> Undef] :
         op \in {"getMetrics", "getVisualizationData", "getPendingTransactions",
                 "getRecentBlocks", "getRecentTransactions"}}
    \cup {[op |-> op, arg |-> Num(1)] :
              op \in {"getRecentBlocks", "getRecentTransactions"}}
    \cup {[op |-> "getBlockByHash", arg |-> h] : h \in {B1, B2}}
    \cup {[op |-> "getTransactionByHash", arg |-> h] : h \in {T1, T2}}

NoThrow == [handler |-> FALSE, escaped |-> FALSE]

(* The lists of the hook's state, each entry the hash of its object *)
NoLists ==
    [pendingTransactions |-> <<>>, proposedTransactions |-> <<>>,
     recentBlocks |-> <<>>, recentTransactions |-> <<>>]

(* useCKBChainViz as useState leaves it.  mounted: the effect has          *)
(* registered the listeners; pc: where connect() stands ("connect": it     *)
(* awaits chainVizService.connect(), "snapshot": it awaits getSnapshot()); *)
(* snapshot: the data of a snapshot are installed; lists: the four lists   *)
(* of the state; latestBlock: a hash, undefined standing for null; closed: *)
(* the lists of the `state` the listeners of the effect close over; torn   *)
(* is history: the connection was torn down while the snapshot was         *)
(* awaited.                                                                *)
FreshHook ==
    [mounted |-> FALSE, isConnected |-> FALSE, isConnecting |-> FALSE,
     pc |-> "idle", snapshot |-> FALSE, error |-> FALSE, torn |-> FALSE,
     latestBlock |-> Undef, lists |-> NoLists, closed |-> NoLists]

(* What getSnapshot() resolves to *)
Snapshot ==
    [latestBlock |-> B2,
     lists |-> [pendingTransactions |-> <<T1, T2>>, proposedTransactions |-> <<>>,
                recentBlocks |-> <<B2>>, recentTransactions |-> <<>>]]

(* array.slice(0, n) *)
SliceTo(s, n) == SubSeq(s, 1, IF Len(s) < n THEN Len(s) ELSE n)

(* The listener of the hook that emit called, if it called one, with the   *)
(* argument of the event.  Each reads the lists of `state` as the effect   *)
(* saw it (closed) and hands its update to setState, which merges it into  *)
(* the state of the moment.                                                *)
useEffectHandlers(h, ran, arg) ==
    CASE \E i \in 1..Len(ran) :
             ran[i].owner = "hook" /\ ran[i].method = "handleBlockFinalized" ->
             [h EXCEPT
                !.latestBlock = arg.blockHash,
                !.lists.recentBlocks =
                    <<arg.blockHash>> \o SliceTo(h.closed.recentBlocks, RecentBlocksKept)]
      [] \E i \in 1..Len(ran) :
             ran[i].owner = "hook" /\ ran[i].method = "handleTransactionPending" ->
             [h EXCEPT
                !.lists.pendingTransactions =
                    <<arg.txHash>> \o SliceTo(h.closed.pendingTransactions, ListKept),
                !.lists.recentTransactions =
                    <<arg.txHash>>
                    \o SliceTo(h.closed.recentTransactions, RecentTransactionsKept)]
      [] \E i \in 1..Len(ran) :
             ran[i].owner = "hook" /\ ran[i].method = "handleTransactionProposed" ->
             [h EXCEPT
                !.lists.pendingTransactions =
                    SelectSeq(h.closed.pendingTransactions,
                              LAMBDA tx : tx # arg.txHash),
                !.lists.proposedTransactions =
                    <<arg.txHash>> \o SliceTo(h.closed.proposedTransactions, ListKept),
                !.lists.recentTransactions =
                    <<arg.txHash>>
                    \o SliceTo(h.closed.recentTransactions, RecentTransactionsKept)]
      [] \E i \in 1..Len(ran) :
             ran[i].owner = "hook" /\ ran[i].method = "handleTransactionConfirmed" ->
             [h EXCEPT
                !.lists.pendingTransactions =
                    SelectSeq(h.closed.pendingTransactions,
                              LAMBDA tx : tx # arg.txHash),
                !.lists.proposedTransactions =
                    SelectSeq(h.closed.proposedTransactions,
                              LAMBDA tx : tx # arg.txHash),
                !.lists.recentTransactions =
                    <<arg.txHash>>
                    \o SliceTo(h.closed.recentTransactions, RecentTransactionsKept)]
      [] \E i \in 1..Len(ran) :
             ran[i].owner = "hook" /\ ran[i].method = "handleTransactionRejected" ->
             [h EXCEPT
                !.lists.pendingTransactions =
                    SelectSeq(h.closed.pendingTransactions,
                              LAMBDA tx : tx # arg.txHash),
                !.lists.proposedTransactions =
                    SelectSeq(h.closed.proposedTransactions,
                              LAMBDA tx : tx # arg.txHash)]
      [] OTHER -> h

(* ChainVisualizationScene.handleNewBlock for the processed-block-data    *)
(* events in out: every listener the scene has registered is called with   *)
(* every one of them, inside the emit of the engine.  All of them are      *)
(* bound to the one scene: not ready it returns at once; ready it adds a   *)
(* rectangle and a text to the container and removes the oldest pair when  *)
(* the container holds more than 20 objects.  added: the sprites the       *)
(* latest message added.                                                   *)
handleNewBlocks(sc, ls, out) ==
    IF sc.ready
    THEN [sc EXCEPT
            !.added = Cardinality({i \in 1..Len(out) :
                                       out[i].ev = "processed-block-data"})
                      * Cardinality({j \in 1..Len(ls) :
                                         /\ ls[j].ev = "processed-block-data"
                                         /\ ls[j].fn.owner = "scene"}),
            !.sprites =
                IF @ + Cardinality({i \in 1..Len(out) :
                                        out[i].ev = "processed-block-data"})
                       * Cardinality({j \in 1..Len(ls) :
                                          /\ ls[j].ev = "processed-block-data"
                                          /\ ls[j].fn.owner = "scene"})
                   > ContainerLimit \div 2
                THEN ContainerLimit \div 2
                ELSE @ + Cardinality({i \in 1..Len(out) :
                                          out[i].ev = "processed-block-data"})
                         * Cardinality({j \in 1..Len(ls) :
                                            /\ ls[j].ev = "processed-block-data"
                                            /\ ls[j].fn.owner = "scene"})]
    ELSE [sc EXCEPT !.added = 0]

(* The engine's handler of ev is registered on the bus *)
Listening(ev) ==
    \E i \in 1..Len(listeners) :
        listeners[i].ev = ev /\ listeners[i].fn.owner = "engine"

(* The number of functions bound so far: five by every constructor and    *)
(* five by every cleanup()                                                 *)
Binds == Len(EngineEvents) * (scene.engines + cleanupCalls)

----------------------------------------------------------------------------
(* State machine *)

Init ==
    /\ listeners = setupEventListeners(<<>>, 0, 1)
    /\ blocks = FreshEngine.blocks
    /\ transactions = FreshEngine.transactions
    /\ blockTimestamps = FreshEngine.blockTimestamps
    /\ transactionCounts = FreshEngine.transactionCounts
    /\ cleanupCalls = 0
    /\ socket = "null"
    /\ isConnected = FALSE
    /\ hook = FreshHook
    /\ scene = [ready |-> FALSE, engines |-> 1, sprites |-> 0, added |-> 0]
    /\ lastOp = [op |-> "init", data |-> NoMessage]
    /\ emitted = <<>>
    /\ thrown = NoThrow
    /\ received = <<>>
    /\ arrivals = <<>>
    /\ lastStatus = [h \in TxKeys |-> "none"]

(* The program before the first create() of the scene: no engine has been *)
(* constructed, nothing listens on the bus.                                *)
InitScene ==
    /\ listeners = <<>>
    /\ blocks = FreshEngine.blocks
    /\ transactions = FreshEngine.transactions
    /\ blockTimestamps = FreshEngine.blockTimestamps
    /\ transactionCounts = FreshEngine.transactionCounts
    /\ cleanupCalls = 0
    /\ socket = "null"
    /\ isConnected = FALSE
    /\ hook = FreshHook
    /\ scene = [ready |-> FALSE, engines |-> 0, sprites |-> 0, added |-> 0]
    /\ lastOp = [op |-> "init", data |-> NoMessage]
    /\ emitted = <<>>
    /\ thrown = NoThrow
    /\ received = <<>>
    /\ arrivals = <<>>
    /\ lastStatus = [h \in TxKeys |-> "none"]

(* The history kept for the properties *)
Arrived(data) ==
    /\ data.present
    /\ data.type = "block.finalized"
    /\ Listening("block-finalized")
    /\ data.payload.present
    /\ processBlock(data.payload).ok

Handled(data) ==
    data.present /\ data.type \in TxTypes /\ Listening(EventOf(data.type))

(* The state after a message, r being what handleMessage did *)
Install(data, r) ==
    /\ blocks' = r.e.blocks
    /\ transactions' = r.e.transactions
    /\ blockTimestamps' = r.e.blockTimestamps
    /\ transactionCounts' = r.e.transactionCounts
    /\ emitted' = r.out
    /\ received' = r.ran
    /\ thrown' = [handler |-> r.threw, escaped |-> r.escaped]
    /\ lastOp' = [op |-> "message", data |-> data]
    /\ arrivals' =
         IF Arrived(data)
         THEN Append(arrivals,
                     [ts |-> DateTime(data.payload.timestamp),
                      count |-> data.payload.transactionCount,
                      raw |-> data.payload.timestamp])
         ELSE arrivals
    /\ lastStatus' =
         IF Handled(data)
         THEN [lastStatus EXCEPT ![data.payload.txHash] = StatusOf(data.type)]
         ELSE lastStatus
    /\ scene' = handleNewBlocks(scene, listeners, r.out)
    /\ hook' = useEffectHandlers(hook, r.ran, data.payload)
    /\ UNCHANGED <<listeners, cleanupCalls, socket, isConnected>>

(* socket.on('message', data => this.handleMessage(data)): the transport  *)
(* delivers messages while it is connected                                 *)
Receive(data) ==
    /\ isConnected
    /\ Install(data, handleMessage(listeners, Engine, data))

ReceiveBlock ==
    /\ Len(arrivals) < MaxBlocks
    /\ \E data \in BlockMessages : Receive(data)

ReceiveMsBlock ==
    /\ Len(arrivals) < MaxBlocks
    /\ \E p \in MsBlocks : Receive(Message("chain", "block.finalized", p))

ReceiveTransaction == \E data \in TxMessages : Receive(data)

ReceiveUnknown == \E data \in UnknownMessages : Receive(data)

(* One message of every type, for the specification of the two streams    *)
(* together                                                                *)
ReceiveSample ==
    \E data \in SampleMessages :
        /\ data.type = "block.finalized" => Len(arrivals) < MaxBlocks
        /\ Receive(data)

(* ChainDataManager.cleanup() *)
Cleanup ==
    /\ cleanupCalls < MaxCleanups
    /\ listeners' = cleanup(listeners, Binds, 1)
    /\ cleanupCalls' = cleanupCalls + 1
    /\ lastOp' = [op |-> "cleanup", data |-> NoMessage]
    /\ emitted' = <<>>
    /\ thrown' = NoThrow
    /\ received' = <<>>
    /\ UNCHANGED <<blocks, transactions, blockTimestamps, transactionCounts,
                   socket, isConnected, hook, scene, arrivals, lastStatus>>

(* What an operation that handles no message leaves as it is *)
Quiet(op) ==
    /\ lastOp' = [op |-> op, data |-> NoMessage]
    /\ emitted' = <<>>
    /\ thrown' = NoThrow
    /\ received' = <<>>
    /\ UNCHANGED <<blocks, transactions, blockTimestamps, transactionCounts,
                   cleanupCalls, scene, arrivals, lastStatus>>

(* A read accessor of the engine is called; r is what the call did *)
Answer(q, r) ==
    /\ blocks' = r.e.blocks
    /\ transactions' = r.e.transactions
    /\ blockTimestamps' = r.e.blockTimestamps
    /\ transactionCounts' = r.e.transactionCounts
    /\ lastOp' = [op |-> q.op, data |-> NoMessage, arg |-> q.arg,
                  returned |-> r.ret]
    /\ emitted' = <<>>
    /\ thrown' = NoThrow
    /\ received' = <<>>
    /\ UNCHANGED <<listeners, cleanupCalls, socket, isConnected, hook, scene,
                   arrivals, lastStatus>>

Read == \E q \in Queries : Answer(q, Query(Engine, q.op, q.arg))

(* CKBChainVizService.connect() without a socket: io() makes the socket    *)
(* and the four socket listeners are registered; with a socket it returns  *)
(* at once.                                                                *)
Connect ==
    /\ socket = "null"
    /\ socket' = "socket"
    /\ Quiet("connect")
    /\ UNCHANGED <<listeners, isConnected, hook>>

(* socket.on('connect'): the transport is connected and the promise of    *)
(* the connect() that made the socket resolves; a hook that awaits it goes *)
(* on to subscribe and to fetch the snapshot.                              *)
OnConnect ==
    /\ socket # "null"
    /\ ~isConnected
    /\ isConnected' = TRUE
    /\ hook' = IF hook.pc = "connect" THEN [hook EXCEPT !.pc = "snapshot"] ELSE hook
    /\ Quiet("onConnect")
    /\ UNCHANGED <<listeners, socket>>

(* The state after an operation of the service or the hook that may       *)
(* publish on the bus, r being what emit did                                *)
Did(op, r) ==
    /\ lastOp' = [op |-> op, data |-> NoMessage]
    /\ emitted' = r.out
    /\ received' = r.ran
    /\ thrown' = [handler |-> r.threw, escaped |-> FALSE]
    /\ UNCHANGED <<blocks, transactions, blockTimestamps, transactionCounts,
                   cleanupCalls, scene, arrivals, lastStatus>>

(* EventBus.emit('chainviz-disconnected') when fires, nothing otherwise *)
EmitDisconnected(fires) ==
    IF fires THEN emit(listeners, Engine, "chainviz-disconnected", AbsentBlock)
    ELSE Result(Engine, <<>>, FALSE)

(* handleDisconnected of the hook, if emit called it *)
handleDisconnected(h, r) ==
    IF \E i \in 1..Len(r.ran) :
           r.ran[i].owner = "hook" /\ r.ran[i].method = "handleDisconnected"
    THEN [h EXCEPT !.isConnected = FALSE]
    ELSE h

(* Mutant: subscribe sends whenever there is a socket *)
subscribeWithSocket(channel) ==
    IF socket = "null" THEN <<>>
    ELSE <<[action |-> "subscribe", channel |-> channel]>>

(* subscribe(channel): what socket.emit('message', ...) sends *)
subscribe(channel) ==
    IF socket = "null" \/ ~isConnected THEN <<>>
    ELSE <<[action |-> "subscribe", channel |-> channel]>>

(* unsubscribe(channel) *)
unsubscribe(channel) ==
    IF socket = "null" \/ ~isConnected THEN <<>>
    ELSE <<[action |-> "unsubscribe", channel |-> channel]>>

(* A call of subscribe or unsubscribe; sent is what went to the transport *)
Subscription ==
    /\ \E c \in {"chain", "transactions"}, a \in {"subscribe", "unsubscribe"} :
         lastOp' = [op |-> a, data |-> NoMessage, channel |-> c,
                    sent |-> IF a = "subscribe" THEN subscribe(c)
                             ELSE unsubscribe(c)]
    /\ emitted' = <<>>
    /\ thrown' = NoThrow
    /\ received' = <<>>
    /\ UNCHANGED <<listeners, blocks, transactions, blockTimestamps,
                   transactionCounts, cleanupCalls, socket, isConnected, hook,
                   scene, arrivals, lastStatus>>

(* The effect of useCKBChainViz on mount; its dependency updateState never *)
(* changes, so it runs once and its listeners keep the `state` of this     *)
(* render.                                                                 *)
Mount ==
    /\ ~hook.mounted
    /\ hook' = [hook EXCEPT !.mounted = TRUE, !.closed = hook.lists]
    /\ listeners' = useEffectListeners(listeners, 1)
    /\ Quiet("mount")
    /\ UNCHANGED <<socket, isConnected>>

(* connect() of the hook up to its first await that waits.  Without a     *)
(* socket chainVizService.connect() makes one and its promise is pending;  *)
(* with a socket it returns at once, so the hook subscribes and starts the *)
(* fetch of the snapshot.                                                  *)
HookConnect ==
    /\ hook.mounted
    /\ ~hook.isConnecting
    /\ ~hook.isConnected
    /\ hook' = [hook EXCEPT !.isConnecting = TRUE, !.error = FALSE,
                            !.torn = FALSE,
                            !.pc = IF socket = "null" THEN "connect" ELSE "snapshot"]
    /\ socket' = "socket"
    /\ Quiet("hookConnect")
    /\ UNCHANGED <<listeners, isConnected>>

(* socket.on('connect_error'): the promise of the connect() that made the  *)
(* socket is rejected (a promise that is settled stays as it is); the hook *)
(* that awaits it runs its catch and finally blocks.  The socket is kept.  *)
OnConnectError ==
    /\ socket # "null"
    /\ ~isConnected
    /\ hook' = IF hook.pc = "connect"
               THEN [hook EXCEPT !.error = TRUE, !.isConnected = FALSE,
                                 !.isConnecting = FALSE, !.pc = "idle"]
               ELSE hook
    /\ Quiet("onConnectError")
    /\ UNCHANGED <<listeners, socket, isConnected>>

(* The fetch of getSnapshot() settles: the hook installs the snapshot and  *)
(* sets isConnected, or runs its catch block; then finally.                *)
SnapshotSettled ==
    /\ hook.pc = "snapshot"
    /\ \E ok \in BOOLEAN :
         hook' = [hook EXCEPT !.isConnected = ok, !.snapshot = ok \/ @,
                              !.error = ~ok, !.isConnecting = FALSE,
                              !.pc = "idle",
                              !.latestBlock = IF ok THEN Snapshot.latestBlock ELSE @,
                              !.lists =
                                  IF ok
                                  THEN [Snapshot.lists EXCEPT
                                          !.recentTransactions =
                                              hook.lists.recentTransactions]
                                  ELSE @]
    /\ Quiet("snapshot")
    /\ UNCHANGED <<listeners, socket, isConnected>>

(* socket.on('disconnect'): the transport is lost *)
OnDisconnect ==
    /\ socket # "null"
    /\ isConnected
    /\ isConnected' = FALSE
    /\ hook' = [handleDisconnected(hook, EmitDisconnected(TRUE)) EXCEPT
                   !.torn = @ \/ hook.pc = "snapshot"]
    /\ Did("onDisconnect", EmitDisconnected(TRUE))
    /\ UNCHANGED <<listeners, socket>>

(* Mutant: disconnect() forgets the socket without closing it *)
HookDisconnectForgets ==
    /\ hook.mounted
    /\ socket' = "null"
    /\ hook' = [hook EXCEPT !.isConnected = FALSE, !.snapshot = FALSE,
                            !.latestBlock = Undef, !.lists = NoLists,
                            !.torn = @ \/ hook.pc = "snapshot"]
    /\ Did("hookDisconnect", EmitDisconnected(FALSE))
    /\ UNCHANGED <<listeners, isConnected>>

(* disconnect() of the hook: chainVizService.disconnect() (socket.io fires *)
(* 'disconnect' inside socket.disconnect() if the socket is connected),    *)
(* then the state is reset; an await of connect() goes on waiting.         *)
HookDisconnect ==
    /\ hook.mounted
    /\ socket' = "null"
    /\ isConnected' = FALSE
    /\ hook' = [hook EXCEPT !.isConnected = FALSE, !.snapshot = FALSE,
                            !.latestBlock = Undef, !.lists = NoLists,
                            !.torn = @ \/ hook.pc = "snapshot"]
    /\ Did("hookDisconnect", EmitDisconnected(socket # "null" /\ isConnected))
    /\ UNCHANGED listeners

(* Game.shutdown(): the scene has a service of its own, whose state is an  *)
(* input here; if it is connected it is disconnected, which publishes      *)
(* chainviz-disconnected; then off(ev) for five events.                    *)
GameShutdown ==
    /\ \E i \in 1..Len(listeners) :
           listeners[i].ev \in {GameEvents[j].ev : j \in 1..Len(GameEvents)}
    /\ \E gameConnected \in BOOLEAN :
         /\ hook' = handleDisconnected(hook, EmitDisconnected(gameConnected))
         /\ Did("shutdown", EmitDisconnected(gameConnected))
    /\ listeners' =
         offEvery(offEvery(offEvery(offEvery(offEvery(listeners,
             "block-finalized"), "transaction-pending"), "transaction-proposed"),
             "transaction-confirmed"), "chainviz-disconnected")
    /\ UNCHANGED <<socket, isConnected>>

(* Game.initializeChainConnection after connect() resolved: the two       *)
(* subscribe calls send to the transport, setupChainEventListeners         *)
(* registers the listeners of the scene (once for a scene).                *)
GameConnected ==
    /\ isConnected
    /\ \A i \in 1..Len(listeners) : listeners[i].fn.owner # "game"
    /\ listeners' = setupChainEventListeners(listeners, 1)
    /\ Quiet("setupChainEventListeners")
    /\ UNCHANGED <<socket, isConnected, hook>>

Next == Connect \/ OnConnect \/ ReceiveSample \/ Read \/ Cleanup

Spec == Init /\ [][Next]_vars

(* The block stream alone *)
NextBlocks ==
    \/ Connect
    \/ OnConnect
    \/ ReceiveBlock
    \/ ReceiveMsBlock
    \/ ReceiveUnknown
    \/ Cleanup

SpecBlocks == Init /\ [][NextBlocks]_vars

(* The transaction stream alone *)
NextTx == Connect \/ OnConnect \/ ReceiveTransaction \/ Cleanup

SpecTx == Init /\ [][NextTx]_vars

(* A reward of 18 digits, more than a double holds exactly *)
LongReward ==
    Str(<<"1", "2", "3", "4", "5", "6", "7", "8", "9",
          "0", "1", "2", "3", "4", "5", "6", "7", "8">>)

(* A long feed of blocks: the k-th processed block has a hash of its own,  *)
(* the number k (every fourth one a number that is no integer), time value *)
(* k, k % 3 transactions and a reward that is long, missing, empty, with   *)
(* leading zeros or short; blocks with an unparseable reward come in       *)
(* between.                                                                *)
FeedPayload(k) ==
    Block(Str(<<"b">> \o NatDigits(k)),
          IF k % 4 = 2 THEN Str(<<"x">>) ELSE Str(NatDigits(k)),
          IsoStr(k), Miner,
          CASE k % 5 = 1 -> LongReward
            [] k % 5 = 2 -> Undef
            [] k % 5 = 3 -> Str(<<>>)
            [] k % 5 = 4 -> Str(<<"0", "7">>)
            [] OTHER -> Str(<<"7">>),
          Num(k % 3))

(* The k-th transaction of the feed *)
FeedTx(k) == Tx(Str(<<"t">> \o NatDigits(k)), IsoStr(20), "none")

(* The feed alternates: a block, then a pending transaction *)
FeedBlock ==
    /\ Len(arrivals) < MaxFeed
    /\ Len(transactions) = Len(arrivals)
    /\ \E p \in {FeedPayload(Len(arrivals) + 1), BadRewardBlock} :
         Receive(Message("chain", "block.finalized", p))

FeedTransaction ==
    /\ Len(transactions) < Len(arrivals)
    /\ Receive(Message("transactions", "transaction.pending",
                       FeedTx(Len(transactions) + 1)))

NextFeed == Connect \/ OnConnect \/ FeedBlock \/ FeedTransaction \/ Read

(* A long feed that delivers two hashes again and again: the blocks of the *)
(* feed above, the odd ones under the hash b1 and the even ones under b2   *)
FeedRepeat ==
    /\ Len(arrivals) < MaxFeed
    /\ \E p \in {[FeedPayload(Len(arrivals) + 1) EXCEPT
                      !.blockHash = IF Len(arrivals) % 2 = 0 THEN B1 ELSE B2],
                  BadRewardBlock} :
         Receive(Message("chain", "block.finalized", p))

NextWindow == Connect \/ OnConnect \/ FeedRepeat

SpecWindow == Init /\ [][NextWindow]_vars

SpecFeed == Init /\ [][NextFeed]_vars

(* The records of the engine that the last operation handed to its        *)
(* consumer as the objects the maps hold: handleNewBlock and               *)
(* handleTransactionUpdate emit the object they have just stored,          *)
(* getBlockByHash and getTransactionByHash return what Map.get returns,    *)
(* and the arrays of getVisualizationData, new themselves, hold the        *)
(* objects of the maps.  The metrics are a new object at every call.       *)
Shared(op, out) ==
    {[coll |-> "blocks", k |-> out[i].arg.hash] :
         i \in {j \in 1..Len(out) : out[j].by = "engine"
                                     /\ out[j].ev = "processed-block-data"}}
    \cup {[coll |-> "transactions", k |-> out[i].arg.hash] :
              i \in {j \in 1..Len(out) : out[j].by = "engine"
                                          /\ out[j].ev = "processed-transaction-data"}}
    \cup (IF op.op = "getBlockByHash" /\ op.returned # Undef
          THEN {[coll |-> "blocks", k |-> op.arg]} ELSE {})
    \cup (IF op.op = "getTransactionByHash" /\ op.returned # Undef
          THEN {[coll |-> "transactions", k |-> op.arg]} ELSE {})
    \cup (IF op.op = "getVisualizationData"
          THEN {[coll |-> "blocks", k |-> op.returned.blocks[i].hash] :
                    i \in 1..Len(op.returned.blocks)}
               \cup {[coll |-> "transactions",
                      k |-> op.returned.transactions[i].hash] :
                         i \in 1..Len(op.returned.transactions)}
          ELSE {})

(* A consumer assigns to a field of a record it has just been handed: the  *)
(* miner of a block, the status of a transaction.  The object is the one   *)
(* the map holds.                                                          *)
Mutate ==
    \E ref \in Shared(lastOp, emitted) :
        /\ blocks' =
             IF ref.coll = "blocks"
             THEN MapSet(blocks, ref.k,
                         [MapGet(blocks, ref.k) EXCEPT !.miner = Str(<<"edited">>)])
             ELSE blocks
        /\ transactions' =
             IF ref.coll = "transactions"
             THEN MapSet(transactions, ref.k,
                         [MapGet(transactions, ref.k) EXCEPT !.status = "EDITED"])
             ELSE transactions
        /\ lastOp' = [op |-> "mutate", data |-> NoMessage]
        /\ emitted' = <<>>
        /\ thrown' = NoThrow
        /\ received' = <<>>
        /\ UNCHANGED <<listeners, blockTimestamps, transactionCounts,
                       cleanupCalls, socket, isConnected, hook, scene, arrivals,
                       lastStatus>>

(* The two streams with a consumer that writes to what it is handed *)
NextShared == Connect \/ OnConnect \/ ReceiveSample \/ Read \/ Mutate

SpecShared == Init /\ [][NextShared]_vars

(* The four listeners ChainVisualizationScene.setupEventListeners         *)
(* registers, each a function made by bind                                 *)
SceneEvents ==
    <<[ev |-> "processed-block-data", method |-> "handleNewBlock"],
      [ev |-> "processed-transaction-data", method |-> "handleNewTransaction"],
      [ev |-> "chain-metrics-updated", method |-> "updateMetrics"],
      [ev |-> "transaction-removed", method |-> "removeTransaction"]>>

SceneBound(i) ==
    [owner |-> "scene", method |-> SceneEvents[i].method,
     bind |-> Len(SceneEvents) * (scene.engines + cleanupCalls) + i]

(* ChainVisualizationScene.create(): new containers, a new engine (whose   *)
(* constructor registers its five listeners) in the place of the one the   *)
(* scene held, the four listeners of the scene, isSceneReady.  Phaser      *)
(* calls create() when it starts the scene, which it does for a scene that *)
(* is not running, and provides this.add.                                  *)
SceneCreate ==
    /\ ~scene.ready
    /\ scene.engines < MaxEngines
    /\ listeners' =
         on(on(on(on(setupEventListeners(Retire(listeners), Binds, 1),
             SceneEvents[1].ev, SceneBound(1)), SceneEvents[2].ev, SceneBound(2)),
             SceneEvents[3].ev, SceneBound(3)), SceneEvents[4].ev, SceneBound(4))
    /\ blocks' = FreshEngine.blocks
    /\ transactions' = FreshEngine.transactions
    /\ blockTimestamps' = FreshEngine.blockTimestamps
    /\ transactionCounts' = FreshEngine.transactionCounts
    /\ scene' = [ready |-> TRUE, engines |-> scene.engines + 1,
                 sprites |-> 0, added |-> 0]
    /\ lastOp' = [op |-> "create", data |-> NoMessage]
    /\ emitted' = <<>>
    /\ thrown' = NoThrow
    /\ received' = <<>>
    /\ UNCHANGED <<cleanupCalls, socket, isConnected, hook, arrivals, lastStatus>>

(* ChainVisualizationScene.shutdown(): isSceneReady = false, four off()    *)
(* with functions made by bind for the call, and cleanup() of the engine   *)
(* if the scene holds one.                                                 *)
SceneShutdown ==
    /\ cleanupCalls < MaxCleanups
    /\ scene.engines > 0
    /\ listeners' =
         cleanup(off(off(off(off(listeners,
             SceneEvents[1].ev, SceneBound(1)), SceneEvents[2].ev, SceneBound(2)),
             SceneEvents[3].ev, SceneBound(3)), SceneEvents[4].ev, SceneBound(4)),
             Binds, 1)
    /\ cleanupCalls' = cleanupCalls + 1
    /\ scene' = [scene EXCEPT !.ready = FALSE]
    /\ lastOp' = [op |-> "sceneShutdown", data |-> NoMessage]
    /\ emitted' = <<>>
    /\ thrown' = NoThrow
    /\ received' = <<>>
    /\ UNCHANGED <<blocks, transactions, blockTimestamps, transactionCounts,
                   socket, isConnected, hook, arrivals, lastStatus>>

(* The block stream with the visualization scene created and shut down *)
NextScene == Connect \/ OnConnect \/ SceneCreate \/ SceneShutdown \/ ReceiveBlock

SpecScene == InitScene /\ [][NextScene]_vars

(* The hook connecting and disconnecting the service *)
NextHook ==
    \/ Mount
    \/ HookConnect
    \/ OnConnect
    \/ OnConnectError
    \/ SnapshotSettled
    \/ OnDisconnect
    \/ HookDisconnect
    \/ GameShutdown
    \/ Subscription

SpecHook == Init /\ [][NextHook]_vars

(* The hook with the two streams *)
NextHookData ==
    \/ Mount
    \/ HookConnect
    \/ OnConnect
    \/ SnapshotSettled
    \/ HookDisconnect
    \/ ReceiveSample

SpecHookData == Init /\ [][NextHookData]_vars

(* The hook with a transport that answers and a fetch that settles: while *)
(* a socket is held and not connected, socket.io ends every attempt with  *)
(* connect or (after its timeout) connect_error, and fetch() ends with a   *)
(* response or an error.                                                   *)
SpecHookLive ==
    /\ SpecHook
    /\ WF_vars(OnConnect \/ OnConnectError)
    /\ WF_vars(SnapshotSettled)

(* The block stream with the Game scene listening after the engine *)
NextBus == Connect \/ OnConnect \/ GameConnected \/ ReceiveBlock

SpecBus == Init /\ [][NextBus]_vars

----------------------------------------------------------------------------
(* Helpers of the properties *)

IsMessage(op, types) ==
    op.op = "message" /\ op.data.present /\ op.data.type \in types

(* The hash under which the engine files a transaction message: a payload *)
(* without hash, or no payload at all, is filed under undefined.           *)
KeyOf(op) == op.data.payload.txHash

Positions(m, k) == {i \in 1..Len(m) : m[i].k = k}

(* From the map m to the map n the keys held in both keep their order and  *)
(* a key that m did not hold is the last of n                              *)
OrderKept(m, n) ==
    /\ \A i, j \in 1..Len(m) :
           (i < j /\ MapHas(n, m[i].k) /\ MapHas(n, m[j].k))
           => MapIndex(n, m[i].k) < MapIndex(n, m[j].k)
    /\ \A j \in 1..Len(n) : ~MapHas(m, n[j].k) => j = Len(n)

(* The records of the sequence s stand in the order of their keys in m *)
InMapOrder(s, m) ==
    \A i, j \in 1..Len(s) :
        i < j => /\ MapHas(m, s[i].hash)
                 /\ MapHas(m, s[j].hash)
                 /\ MapIndex(m, s[i].hash) < MapIndex(m, s[j].hash)

EventsOf(out, ev) == {i \in 1..Len(out) : out[i].ev = ev}

EngineEventsIn(out) == {i \in 1..Len(out) : out[i].by = "engine"}

Max(a, b) == IF a > b THEN a ELSE b
Min(a, b) == IF a < b THEN a ELSE b

(* A fraction that is the number 0 *)
IsZero(q) == ~q.nan /\ q.num = 0 /\ q.den # 0

(* A string of decimal digits *)
IsDecimal(v) ==
    v.t = "string" /\ v.s # <<>> /\ \A i \in 1..Len(v.s) : IsDigit(v.s[i])

(* A block.finalized message with a payload whose hash is a string and     *)
(* whose reward BigInt accepts has been handled by the engine               *)
BlockHandled(op) ==
    /\ IsMessage(op, {"block.finalized"})
    /\ op.data.channel = "chain"
    /\ op.data.payload.present
    /\ op.data.payload.blockHash.t = "string"
    /\ \/ op.data.payload.reward \in {Undef, Str(<<>>)}
       \/ IsDecimal(op.data.payload.reward)

(* The sum of the transaction counts of the last k processed blocks *)
LastCounts(k) ==
    SumOf([i \in 1..k |-> arrivals[Len(arrivals) - k + i].count])

----------------------------------------------------------------------------
(* C1: the block-timestamp window and the transaction-count window never  *)
(* hold more than 100 entries, and they hold the values of the most        *)
(* recently processed blocks (all of them up to 100, the last 100 after    *)
(* that) in arrival order.                                                 *)
C1_WindowsHoldLatest ==
    LET n == Len(arrivals)
        recent == SubSeq(arrivals, Max(1, n - 99), n)
    IN  /\ Len(blockTimestamps) <= 100
        /\ Len(transactionCounts) <= 100
        /\ blockTimestamps = [i \in 1..Len(recent) |-> recent[i].ts]
        /\ transactionCounts = [i \in 1..Len(recent) |-> recent[i].count]

C1_Witness ==
    /\ Len(arrivals) > 100
    /\ Len(blockTimestamps) = 100
    /\ blockTimestamps[1] = arrivals[Len(arrivals) - 99].ts
    /\ blockTimestamps[1] # arrivals[1].ts
    /\ transactionCounts[100] = arrivals[Len(arrivals)].count

(* C2: the transaction map holds exactly one record for every hash whose  *)
(* latest event was pending, proposed or confirmed and none for any other *)
(* hash, and the lookup by hash returns the record with the status of the *)
(* latest event.                                                           *)
C2_LatestStatusWins ==
    \A h \in TxKeys :
        /\ Cardinality(Positions(transactions, h)) =
               IF lastStatus[h] \in {"PENDING", "PROPOSED", "CONFIRMED"} THEN 1 ELSE 0
        /\ MapHas(transactions, h) =>
               /\ getTransactionByHash(Engine, h).hash = h
               /\ getTransactionByHash(Engine, h).status = lastStatus[h]
    /\ MapKeys(transactions) \subseteq TxKeys

C2_Witness ==
    /\ IsMessage(lastOp, {"transaction.pending"})
    /\ KeyOf(lastOp) = T2
    /\ lastOp.data.payload.status = "CONFIRMED"
    /\ MapHas(transactions, T1)
    /\ MapHas(transactions, T2)
    /\ getTransactionByHash(Engine, T2).status = "PENDING"
    /\ getTransactionByHash(Engine, T1).status = "CONFIRMED"
    /\ transactions[1].k = T2
    /\ lastStatus[Undef] = "REJECTED"

(* C3: a transaction-rejected event for hash h leaves no record for h,    *)
(* publishes exactly one transaction-removed event, which carries h, and   *)
(* leaves the records of all other hashes as they were.                    *)
C3_RejectedIsRemoved ==
    [][IsMessage(lastOp', {"transaction.rejected"}) =>
         LET h == KeyOf(lastOp')
             removed == EventsOf(emitted', "transaction-removed")
             pending == getPendingTransactions([transactions |-> transactions'])
         IN  /\ ~MapHas(transactions', h)
             /\ \A i \in 1..Len(pending) : pending[i].k # h
             /\ Cardinality(removed) = 1
             /\ \A i \in removed : emitted'[i].arg = h
             /\ \A g \in TxKeys \ {h} :
                    /\ MapHas(transactions', g) = MapHas(transactions, g)
                    /\ MapGet(transactions', g) = MapGet(transactions, g)
             /\ ~thrown'.handler
      ]_vars

C3_Witness ==
    /\ IsMessage(lastOp, {"transaction.rejected"})
    /\ KeyOf(lastOp) = T1
    /\ ~MapHas(transactions, T1)
    /\ MapHas(transactions, T2)
    /\ MapHas(transactions, Undef)
    /\ Len(emitted) = 2
    /\ emitted[2] = Event("transaction-removed", "engine", T1)

(* C4, as claimed: a CONFIRMED record is never changed to PENDING or      *)
(* PROPOSED, and a rejected hash never gets a record again.                *)
C4_TerminalIsFinal ==
    [][\A h \in TxKeys :
         /\ (MapHas(transactions, h) /\ MapGet(transactions, h).status = "CONFIRMED"
                 /\ MapHas(transactions', h))
              => MapGet(transactions', h).status \notin {"PENDING", "PROPOSED"}
         /\ lastStatus[h] = "REJECTED" => ~MapHas(transactions', h)
      ]_vars

(* C4, amended: a CONFIRMED record and the absence of a rejected hash      *)
(* change only by a later transaction event for the same hash, and then    *)
(* the record takes the status of that event; events for other hashes,     *)
(* block events and cleanup() leave them as they are.                      *)
C4_TerminalUntilNextEvent ==
    [][\A h \in TxKeys :
         LET confirmed == MapHas(transactions, h)
                              /\ MapGet(transactions, h).status = "CONFIRMED"
             rejected == lastStatus[h] = "REJECTED" /\ ~MapHas(transactions, h)
             changed == \/ MapHas(transactions', h) # MapHas(transactions, h)
                        \/ MapGet(transactions', h) # MapGet(transactions, h)
         IN  ((confirmed \/ rejected) /\ changed) =>
                 /\ IsMessage(lastOp', TxTypes)
                 /\ KeyOf(lastOp') = h
                 /\ IF lastOp'.data.type = "transaction.rejected"
                    THEN ~MapHas(transactions', h)
                    ELSE /\ MapHas(transactions', h)
                         /\ MapGet(transactions', h).status = StatusOf(lastOp'.data.type)
      ]_vars

C4_Witness ==
    /\ IsMessage(lastOp, {"transaction.rejected"})
    /\ KeyOf(lastOp) = T2
    /\ MapHas(transactions, T1)
    /\ MapGet(transactions, T1).status = "CONFIRMED"
    /\ lastStatus[Undef] = "REJECTED"
    /\ ~MapHas(transactions, Undef)

(* C5: once cleanup() has been called, no event changes the collections   *)
(* of the engine or makes the engine publish anything.                     *)
C5_CleanupUnsubscribes ==
    [][cleanupCalls > 0 =>
         /\ UNCHANGED <<blocks, transactions, blockTimestamps, transactionCounts>>
         /\ EngineEventsIn(emitted') = {}
         /\ \A i \in 1..Len(listeners') : listeners'[i].fn.owner # "engine"
      ]_vars

(* C6: a call of cleanup() after an earlier one raises nothing and leaves *)
(* the collections of the engine and the handlers on the bus as the        *)
(* earlier call left them.                                                 *)
C6_CleanupIdempotent ==
    [][(lastOp'.op = "cleanup" /\ cleanupCalls > 0) =>
         /\ listeners' = listeners
         /\ UNCHANGED <<blocks, transactions, blockTimestamps, transactionCounts>>
         /\ thrown' = NoThrow
      ]_vars

C6_Witness ==
    /\ lastOp.op = "cleanup"
    /\ cleanupCalls = 2
    /\ Len(blocks) > 0
    /\ Len(transactions) > 0

(* C7: a well-formed block that is delivered, after malformed ones or     *)
(* not, is held under its hash with the fields of its payload and          *)
(* published as processed-block-data, with the very record an engine that  *)
(* saw no event before would hold and publish.                             *)
C7_WellFormedAfterMalformed ==
    (/\ IsMessage(lastOp, {"block.finalized"})
     /\ lastOp.data.payload \in WellFormedBlocks) =>
        LET b == lastOp.data.payload
            held == getBlockByHash(Engine, b.blockHash)
            published == EventsOf(emitted, "processed-block-data")
        IN  /\ MapHas(blocks, b.blockHash)
            /\ held.hash = b.blockHash
            /\ held.transactionCount = b.transactionCount
            /\ held.miner = b.miner
            /\ held.timestamp = Num(b.timestamp.n)
            /\ Cardinality(published) = 1
            /\ \A i \in published : emitted[i].arg = held
            /\ held = MapGet(handleNewBlock(FreshEngine, b).e.blocks, b.blockHash)
            /\ thrown = NoThrow

C7_Witness ==
    /\ IsMessage(lastOp, {"block.finalized"})
    /\ lastOp.data.payload = GoodB2
    /\ MapHas(blocks, Undef)
    /\ blocks[1].k = Undef
    /\ MapHas(blocks, B2)
    /\ getBlockByHash(Engine, B2).number = Num(2)
    /\ Len(arrivals) = 2

(* C8: a malformed block event leaves the block map and both windows as   *)
(* they were, and a malformed transaction event leaves the transaction    *)
(* map as it was.                                                          *)
C8_MalformedLeavesState ==
    [][/\ (IsMessage(lastOp', {"block.finalized"})
              /\ lastOp'.data.payload \in MalformedBlocks)
            => UNCHANGED <<blocks, blockTimestamps, transactionCounts>>
       /\ (IsMessage(lastOp', TxTypes) /\ lastOp'.data.payload = AbsentTx)
            => UNCHANGED transactions
      ]_vars

(* C9: no exception leaves a bus handler of the engine *)
C9_NoHandlerThrows == ~thrown.handler

(* C10: a message of a known type makes the service publish exactly one   *)
(* event: block-finalized with the payload as it came, or transaction-X    *)
(* with the fields of the payload and the status of the message type.      *)
C10_OneEventPerMessage ==
    IsMessage(lastOp, TxTypes \cup {"block.finalized"}) =>
        LET data == lastOp.data
            published == {i \in 1..Len(emitted) : emitted[i].by = "service"}
        IN  /\ published = {1}
            /\ emitted[1].ev = EventOf(data.type)
            /\ IF data.type = "block.finalized"
               THEN emitted[1].arg = data.payload
               ELSE /\ emitted[1].arg.status = StatusOf(data.type)
                    /\ emitted[1].arg.txHash = data.payload.txHash
                    /\ emitted[1].arg.timestamp = data.payload.timestamp
            /\ ~thrown.escaped

C10_Witness ==
    /\ IsMessage(lastOp, {"transaction.proposed"})
    /\ lastOp.data.payload = Tx(T2, IsoStr(20), "CONFIRMED")
    /\ emitted[1] = Event("transaction-proposed", "service", Tx(T2, IsoStr(20), "PROPOSED"))
    /\ Len(blocks) > 0

(* C11: a message whose type is none of the five known types is dropped:  *)
(* no bus event is published for it, no exception is raised, and the       *)
(* connection state of the service and the collections of the engine stay  *)
(* as they were.                                                           *)
C11_UnknownTypeDropped ==
    [][(/\ lastOp'.op = "message"
        /\ lastOp'.data.present
        /\ lastOp'.data.type \notin TxTypes \cup {"block.finalized"}) =>
         /\ emitted' = <<>>
         /\ thrown' = NoThrow
         /\ UNCHANGED <<socket, isConnected>>
         /\ UNCHANGED <<blocks, transactions, blockTimestamps, transactionCounts>>
      ]_vars

C11_Witness ==
    /\ lastOp.op = "message"
    /\ lastOp.data = Message("transactions", "transaction.unknown", Tx(T1, IsoStr(10), "none"))
    /\ emitted = <<>>
    /\ isConnected
    /\ socket = "socket"
    /\ Len(blocks) = 2

(* C12: whatever message arrives (a malformed or absent envelope, or one  *)
(* whose subscriber throws), no exception leaves handleMessage, and a      *)
(* message of a known type is published as a service that saw no message   *)
(* before would publish it.                                                *)
C12_MessageIsolation ==
    lastOp.op = "message" =>
        /\ ~thrown.escaped
        /\ IsMessage(lastOp, TxTypes \cup {"block.finalized"}) =>
               /\ emitted # <<>>
               /\ emitted[1] = handleMessage(<<>>, FreshEngine, lastOp.data).out[1]

(* C13: a message on a channel other than chain and transactions is       *)
(* dropped: no event is published for it, whatever its type.               *)
C13_UnknownChannelDropped ==
    (/\ lastOp.op = "message"
     /\ lastOp.data.present
     /\ lastOp.data.channel \notin {"chain", "transactions"}) =>
        emitted = <<>>

(* C14: when a subscriber of a bus event throws, every other subscriber   *)
(* of that event is still called and the publisher goes on: for a          *)
(* block-finalized event every registered listener of it is called,        *)
(* nothing leaves handleMessage, and a published processed-block-data is   *)
(* followed by chain-metrics-updated.                                      *)
C14_SubscribersIsolated ==
    IsMessage(lastOp, {"block.finalized"}) =>
        /\ \A i \in 1..Len(listeners) :
               listeners[i].ev = "block-finalized" =>
                   \E j \in 1..Len(received) : received[j] = listeners[i].fn
        /\ ~thrown.escaped
        /\ Cardinality(EventsOf(emitted, "processed-block-data")) =
               Cardinality(EventsOf(emitted, "chain-metrics-updated"))

(* C15: before any block was processed getMetrics() returns average block *)
(* interval 0, throughput 0, hash rate 0 and confirmation time 0; with one *)
(* processed block the average interval, the throughput and the            *)
(* confirmation time are still 0.                                          *)
C15_MetricsZeroState ==
    /\ Len(arrivals) = 0 =>
           /\ IsZero(getMetrics(Engine).averageBlockTime)
           /\ IsZero(getMetrics(Engine).transactionThroughput)
           /\ getMetrics(Engine).networkHashRate = Big(<<"0">>)
           /\ IsZero(getMetrics(Engine).confirmationTime)
    /\ Len(arrivals) = 1 =>
           /\ IsZero(getMetrics(Engine).averageBlockTime)
           /\ IsZero(getMetrics(Engine).transactionThroughput)
           /\ IsZero(getMetrics(Engine).confirmationTime)

C15_Witness ==
    /\ Len(arrivals) = 1
    /\ Len(blockTimestamps) = 1
    /\ transactionCounts = <<Num(3)>>
    /\ IsMessage(lastOp, {"block.finalized"})
    /\ lastOp.data.payload = BadRewardBlock
    /\ IsZero(getMetrics(Engine).transactionThroughput)

(* C16: for blocks whose timestamp is an epoch-milliseconds string, the   *)
(* average block interval of getMetrics() is the mean of the consecutive   *)
(* differences of the timestamps in the window (the last minus the first,  *)
(* by their number), in seconds, and the confirmation time is 6 times it.  *)
C16_AverageOfMsTimestamps ==
    (/\ Len(arrivals) >= 2
     /\ \A i \in 1..Len(arrivals) : arrivals[i].raw.s = <<"ms">>) =>
        LET n == Len(arrivals)
            span == arrivals[n].raw.n - arrivals[1].raw.n
        IN  /\ ~getMetrics(Engine).averageBlockTime.nan
            /\ getMetrics(Engine).averageBlockTime.num * (n - 1) * 1000 =
                   span * getMetrics(Engine).averageBlockTime.den
            /\ ~getMetrics(Engine).confirmationTime.nan
            /\ getMetrics(Engine).confirmationTime.num * (n - 1) * 1000 =
                   6 * span * getMetrics(Engine).confirmationTime.den

(* C17, as claimed: the throughput of getMetrics() is the sum of the last *)
(* 10 entries of the transaction-count window divided by 10 times the      *)
(* average block interval, for every window length, and 0 when the         *)
(* interval is 0 or the window is empty.                                   *)
C17_ThroughputByTen ==
    ~getMetrics(Engine).averageBlockTime.nan =>
        IF Len(transactionCounts) = 0 \/ IsZero(getMetrics(Engine).averageBlockTime)
        THEN IsZero(getMetrics(Engine).transactionThroughput)
        ELSE /\ ~getMetrics(Engine).transactionThroughput.nan
             /\ getMetrics(Engine).transactionThroughput.num
                     * 10 * getMetrics(Engine).averageBlockTime.num
                  = LastCounts(Min(10, Len(arrivals)))
                     * getMetrics(Engine).averageBlockTime.den
                     * getMetrics(Engine).transactionThroughput.den

(* C17, amended: the throughput is the sum of the last min(10, length)    *)
(* entries of the transaction-count window divided by min(10, length)      *)
(* times the average block interval when that interval is a positive       *)
(* number, and 0 otherwise (empty window, interval 0, negative or NaN).    *)
C17_ThroughputByLength ==
    IF \/ Len(transactionCounts) = 0
       \/ getMetrics(Engine).averageBlockTime.nan
       \/ getMetrics(Engine).averageBlockTime.num <= 0
    THEN IsZero(getMetrics(Engine).transactionThroughput)
    ELSE /\ ~getMetrics(Engine).transactionThroughput.nan
         /\ getMetrics(Engine).transactionThroughput.num
                 * Min(10, Len(arrivals)) * getMetrics(Engine).averageBlockTime.num
              = LastCounts(Min(10, Len(arrivals)))
                 * getMetrics(Engine).averageBlockTime.den
                 * getMetrics(Engine).transactionThroughput.den

C17_Witness ==
    /\ Len(arrivals) = 4
    /\ Len(transactionCounts) = 4
    /\ LastCounts(4) = 4
    /\ ~IsZero(getMetrics(Engine).transactionThroughput)
    /\ getMetrics(Engine).transactionThroughput.num
           = 1000 * getMetrics(Engine).transactionThroughput.den

(* C18: pendingTxCount of getMetrics() is the number of records of the    *)
(* transaction map with status PENDING and the length of                  *)
(* getPendingTransactions(); it counts exactly the hashes whose latest     *)
(* event was pending, so a hash that was proposed, confirmed or rejected   *)
(* since is not counted.                                                   *)
C18_PendingCount ==
    /\ getMetrics(Engine).pendingTxCount =
           Cardinality({i \in 1..Len(transactions) :
                            transactions[i].v.status = "PENDING"})
    /\ getMetrics(Engine).pendingTxCount = Len(getPendingTransactions(Engine))
    /\ getMetrics(Engine).pendingTxCount =
           Cardinality({h \in TxKeys : lastStatus[h] = "PENDING"})
    /\ \A i \in 1..Len(getPendingTransactions(Engine)) :
           lastStatus[getPendingTransactions(Engine)[i].k] = "PENDING"

C18_Witness ==
    /\ IsMessage(lastOp, {"transaction.proposed"})
    /\ KeyOf(lastOp) = T1
    /\ lastStatus[T2] = "PENDING"
    /\ lastStatus[Undef] = "REJECTED"
    /\ Len(transactions) = 2
    /\ getMetrics(Engine).pendingTxCount = 1
    /\ getPendingTransactions(Engine)[1].k = T2

(* C19: getMetrics() and the read accessors leave the block map, the      *)
(* transaction map (contents and order) and both windows as they were and  *)
(* publish nothing; what getMetrics() returned is what a second call       *)
(* right after it returns.                                                 *)
C19_ReadsArePure ==
    [][(\E q \in Queries : lastOp'.op = q.op) =>
         /\ UNCHANGED <<blocks, transactions, blockTimestamps, transactionCounts>>
         /\ emitted' = <<>>
         /\ lastOp'.op = "getMetrics" =>
                lastOp'.returned =
                    getMetrics([blocks |-> blocks', transactions |-> transactions',
                                blockTimestamps |-> blockTimestamps',
                                transactionCounts |-> transactionCounts'])
      ]_vars

C19_Witness ==
    /\ lastOp.op = "getRecentTransactions"
    /\ lastOp.arg = Num(1)
    /\ Len(lastOp.returned) = 1
    /\ lastOp.returned[1].hash = Undef
    /\ Len(transactions) = 2
    /\ transactions[2].k = T2
    /\ Len(blocks) = 1
    /\ Len(blockTimestamps) = 3

(* C20: a block-finalized event that is processed without error makes the *)
(* engine publish exactly one processed-block-data and then exactly one    *)
(* chain-metrics-updated, after the block map and both windows were        *)
(* updated: the block published is the one held, the windows end with its  *)
(* values, and the metrics published are those of the updated state.       *)
C20_BlockThenMetrics ==
    (/\ IsMessage(lastOp, {"block.finalized"})
     /\ lastOp.data.payload.present
     /\ processBlock(lastOp.data.payload).ok) =>
        /\ Len(emitted) = 3
        /\ EngineEventsIn(emitted) = {2, 3}
        /\ emitted[2].ev = "processed-block-data"
        /\ emitted[3].ev = "chain-metrics-updated"
        /\ MapHas(blocks, lastOp.data.payload.blockHash)
        /\ emitted[2].arg = MapGet(blocks, lastOp.data.payload.blockHash)
        /\ blockTimestamps[Len(blockTimestamps)] = emitted[2].arg.timestamp
        /\ transactionCounts[Len(transactionCounts)] = emitted[2].arg.transactionCount
        /\ emitted[3].arg = getMetrics(Engine)

C20_Witness ==
    /\ IsMessage(lastOp, {"block.finalized"})
    /\ lastOp.data.payload = GoodB2
    /\ Len(arrivals) = 2
    /\ arrivals[1].raw = IsoStr(10)
    /\ Len(emitted) = 3
    /\ emitted[3].arg.averageBlockTime = [nan |-> FALSE, num |-> 10, den |-> 1000]
    /\ emitted[3].arg.transactionThroughput.num > 0

----------------------------------------------------------------------------
(* C21: the block map holds one record per hash; a block-finalized event   *)
(* whose hash is already held replaces the whole record with the one       *)
(* derived from the later payload and leaves the number of held blocks as  *)
(* it was.                                                                 *)
C21_OneBlockPerHash ==
    [][/\ \A k \in MapKeys(blocks') : Cardinality(Positions(blocks', k)) = 1
       /\ (lastOp'.op = "message" /\ Arrived(lastOp'.data)
           /\ MapHas(blocks, lastOp'.data.payload.blockHash))
          => /\ Len(blocks') = Len(blocks)
             /\ MapGet(blocks', lastOp'.data.payload.blockHash)
                  = processBlock(lastOp'.data.payload).val]_vars

(* B1 was held from an earlier payload and has just been delivered again   *)
(* with another number, timestamp, reward and transaction count            *)
C21_Witness ==
    /\ lastOp.op = "message"
    /\ lastOp.data.present
    /\ lastOp.data.payload = AgainB1
    /\ Len(arrivals) >= 2
    /\ arrivals[Len(arrivals)].raw = AgainB1.timestamp
    /\ \E i \in 1..(Len(arrivals) - 1) : arrivals[i].raw = GoodB1.timestamp
    /\ Len(blocks) = 1
    /\ MapGet(blocks, B1) = processBlock(AgainB1).val
    /\ MapGet(blocks, B1) # processBlock(GoodB1).val

----------------------------------------------------------------------------
(* C22: the block-by-hash map and the transaction-by-hash map never hold   *)
(* more records than a fixed cap, the only limit the engine has being the  *)
(* 100 of its windows.                                                     *)
C22_MapsBounded ==
    /\ Len(blocks) <= WindowLimit
    /\ Len(transactions) <= WindowLimit

----------------------------------------------------------------------------
(* C23: a consumer that assigns to a record it received through            *)
(* processed-block-data, processed-transaction-data, getBlockByHash,       *)
(* getTransactionByHash or getVisualizationData changes neither the        *)
(* records the engine holds nor the metrics it computes.                   *)
C23_ConsumersHoldCopies ==
    [][lastOp'.op = "mutate"
       => /\ blocks' = blocks
          /\ transactions' = transactions
          /\ getMetrics(Engine)' = getMetrics(Engine)]_vars

----------------------------------------------------------------------------
(* C24: whenever the promise returned by connect() resolves (the caller    *)
(* goes on to the snapshot), the service is connected, also when connect() *)
(* is called again after an attempt failed.                                *)
C24_ResolvedIsConnected ==
    [][(hook.pc # "snapshot" /\ hook'.pc = "snapshot") => isConnected']_vars

----------------------------------------------------------------------------
(* C25: every disconnect event of the transport sets the connected flag of *)
(* the service to false and publishes exactly one chainviz-disconnected    *)
(* event, after which isConnected of the mounted hook is false.            *)
C25_DisconnectReachesHook ==
    [][lastOp'.op = "onDisconnect"
       => /\ ~isConnected'
          /\ Cardinality(EventsOf(emitted', "chainviz-disconnected")) = 1
          /\ hook'.mounted => ~hook'.isConnected]_vars

----------------------------------------------------------------------------
(* C26: if the connection is torn down (disconnect() of the hook or a      *)
(* disconnect event of the transport) while the snapshot is being fetched, *)
(* then after the fetch has settled the hook is still disconnected and     *)
(* holds no snapshot data.                                                 *)
C26_LateResolutionIgnored ==
    [][(lastOp'.op = "snapshot" /\ hook.torn)
       => (~hook'.isConnected /\ ~hook'.snapshot)]_vars

----------------------------------------------------------------------------
(* C27: getVisualizationData() returns the last 50 held blocks and the     *)
(* last 100 held transactions (all of them when fewer are held) in the     *)
(* insertion order of the maps, with the metrics getMetrics() gives in the *)
(* same state.                                                             *)
C27_VisualizationData ==
    lastOp.op = "getVisualizationData"
    => /\ lastOp.returned.blocks
            = [i \in 1..Min(50, Len(blocks)) |->
                  blocks[Len(blocks) - Min(50, Len(blocks)) + i].v]
       /\ lastOp.returned.transactions
            = [i \in 1..Min(100, Len(transactions)) |->
                  transactions[Len(transactions) - Min(100, Len(transactions)) + i].v]
       /\ lastOp.returned.metrics = getMetrics(Engine)

(* More than 50 blocks and more than 100 transactions are held and the     *)
(* call returned 50 and 100 of them                                        *)
C27_Witness ==
    /\ lastOp.op = "getVisualizationData"
    /\ Len(blocks) > 50
    /\ Len(transactions) > 100
    /\ Len(lastOp.returned.blocks) = 50
    /\ Len(lastOp.returned.transactions) = 100
    /\ lastOp.returned.blocks[50] = blocks[Len(blocks)].v
    /\ lastOp.returned.blocks[1] # blocks[1].v

----------------------------------------------------------------------------
(* C28: getRecentBlocks(n) returns min(n, number of held blocks) blocks in *)
(* the order of non-increasing block number, and no held block that is     *)
(* left out has a larger number than a returned one (a number that is NaN  *)
(* compares with nothing).                                                 *)
C28_RecentBlocksSorted ==
    lastOp.op = "getRecentBlocks"
    => /\ Len(lastOp.returned)
            = Min(IF lastOp.arg = Undef THEN 10 ELSE lastOp.arg.n, Len(blocks))
       /\ \A i, j \in 1..Len(lastOp.returned) :
              (/\ i < j
               /\ lastOp.returned[i].number.t = "number"
               /\ lastOp.returned[j].number.t = "number")
              => lastOp.returned[i].number.n >= lastOp.returned[j].number.n
       /\ \A k \in 1..Len(blocks), j \in 1..Len(lastOp.returned) :
              (/\ \A i \in 1..Len(lastOp.returned) :
                      lastOp.returned[i].hash # blocks[k].k
               /\ blocks[k].v.number.t = "number"
               /\ lastOp.returned[j].number.t = "number")
              => blocks[k].v.number.n <= lastOp.returned[j].number.n

----------------------------------------------------------------------------
(* C29: a block-finalized event whose block number is no integer is no     *)
(* error: the block is stored under its hash with the number NaN, both     *)
(* windows get its values at their end and processed-block-data and        *)
(* chain-metrics-updated are published, in this order.                     *)
C29_UnparseableNumberStored ==
    [][(/\ BlockHandled(lastOp')
        /\ Listening("block-finalized")
        /\ parseInt(lastOp'.data.payload.blockNumber) = NaN)
       => /\ thrown' = NoThrow
          /\ MapHas(blocks', lastOp'.data.payload.blockHash)
          /\ MapGet(blocks', lastOp'.data.payload.blockHash).number = NaN
          /\ MapGet(blocks', lastOp'.data.payload.blockHash).miner
               = lastOp'.data.payload.miner
          /\ Len(blockTimestamps') = Min(100, Len(blockTimestamps) + 1)
          /\ Len(transactionCounts') = Min(100, Len(transactionCounts) + 1)
          /\ blockTimestamps'[Len(blockTimestamps')]
               = DateTime(lastOp'.data.payload.timestamp)
          /\ transactionCounts'[Len(transactionCounts')]
               = lastOp'.data.payload.transactionCount
          /\ [i \in 1..Len(emitted') |-> emitted'[i].ev]
               = <<"block-finalized", "processed-block-data",
                   "chain-metrics-updated">>]_vars

(* The second block of the feed, whose number is "x", has just been        *)
(* handled and is held with the number NaN                                 *)
C29_Witness ==
    /\ BlockHandled(lastOp)
    /\ lastOp.data.payload.blockNumber = Str(<<"x">>)
    /\ MapHas(blocks, lastOp.data.payload.blockHash)
    /\ MapGet(blocks, lastOp.data.payload.blockHash).number = NaN
    /\ Cardinality(EventsOf(emitted, "processed-block-data")) = 1
    /\ Cardinality(EventsOf(emitted, "chain-metrics-updated")) = 1

----------------------------------------------------------------------------
(* C30: the totalValue of the ProcessedBlock derived from a block whose    *)
(* reward is a string of decimal digits is that integer, digit for digit;  *)
(* a missing or empty reward gives 0.                                      *)
C30_RewardRoundTrip ==
    [][(BlockHandled(lastOp') /\ Listening("block-finalized"))
       => /\ MapHas(blocks', lastOp'.data.payload.blockHash)
          /\ MapGet(blocks', lastOp'.data.payload.blockHash).totalValue
               = IF IsDecimal(lastOp'.data.payload.reward)
                 THEN Big(StripZeros(lastOp'.data.payload.reward.s))
                 ELSE Big(<<"0">>)]_vars

(* Blocks with the reward "123456789012345678", with no reward and with    *)
(* the empty reward are held with 123456789012345678, 0 and 0              *)
C30_Witness ==
    /\ Len(blocks) >= 3
    /\ BlockHandled(lastOp)
    /\ lastOp.data.payload.reward = Str(<<>>)
    /\ blocks[1].v.totalValue = Big(LongReward.s)
    /\ Len(blocks[1].v.totalValue.s) = 18
    /\ blocks[2].v.totalValue = Big(<<"0">>)
    /\ blocks[3].v.totalValue = Big(<<"0">>)

----------------------------------------------------------------------------
(* C31: the difficulty of a block is never populated, so networkHashRate   *)
(* is 0 in every reachable state, in the metrics computed on demand and in *)
(* every published snapshot, also when no block is held, when the average  *)
(* interval is 0, negative (timestamps out of order) or NaN.               *)
C31_HashRateZero ==
    /\ getMetrics(Engine).networkHashRate = Big(<<"0">>)
    /\ \A i \in EventsOf(emitted, "chain-metrics-updated") :
           emitted[i].arg.networkHashRate = Big(<<"0">>)

(* Two blocks are held, the average interval is positive and a snapshot    *)
(* has just been published                                                 *)
C31_Witness ==
    /\ Len(blocks) >= 2
    /\ ~calculateAverageBlockTime(Engine).nan
    /\ calculateAverageBlockTime(Engine).num > 0
    /\ calculateAverageBlockTime(Engine).den > 0
    /\ EventsOf(emitted, "chain-metrics-updated") # {}

----------------------------------------------------------------------------
(* C32: Game.shutdown() removes only listeners the scene added: every      *)
(* listener the engine or the hook registered is still registered          *)
(* afterwards.                                                             *)
C32_ShutdownKeepsOthers ==
    [][lastOp'.op = "shutdown"
       => \A i \in 1..Len(listeners) :
              listeners[i].fn.owner # "game"
              => \E j \in 1..Len(listeners') : listeners'[j] = listeners[i]]_vars

----------------------------------------------------------------------------
(* C33: subscribe(c) and unsubscribe(c) send exactly one {action, channel} *)
(* message when the service holds a socket and is connected; in every      *)
(* other state they send nothing, raise nothing and change no state.       *)
C33_SubscribeWhenConnected ==
    [][lastOp'.op \in {"subscribe", "unsubscribe"}
       => /\ lastOp'.sent
               = IF socket # "null" /\ isConnected
                 THEN <<[action |-> lastOp'.op, channel |-> lastOp'.channel]>>
                 ELSE <<>>
          /\ thrown' = NoThrow
          /\ emitted' = <<>>
          /\ UNCHANGED <<listeners, blocks, transactions, blockTimestamps,
                         transactionCounts, socket, isConnected, hook>>]_vars

(* unsubscribe was called on a connected service and sent its message *)
C33_Witness ==
    /\ lastOp.op = "unsubscribe"
    /\ isConnected
    /\ socket # "null"
    /\ lastOp.sent = <<[action |-> "unsubscribe", channel |-> lastOp.channel]>>

----------------------------------------------------------------------------
(* C34: every connect() of the hook that sets isConnecting to true sets it *)
(* back to false in the end, with isConnected true or an error set.        *)
C34_ConnectingEnds ==
    hook.isConnecting
        ~> (~hook.isConnecting /\ (hook.isConnected \/ hook.error))

----------------------------------------------------------------------------
(* C35: across create()/shutdown() cycles of the visualization scene a     *)
(* single block-finalized event with a block the engine can process causes *)
(* exactly one processed-block-data event and, the scene being ready,      *)
(* exactly one block sprite to be added.                                   *)
C35_OneSpritePerBlock ==
    [][(BlockHandled(lastOp') /\ scene.ready /\ Listening("block-finalized"))
       => /\ Cardinality(EventsOf(emitted', "processed-block-data")) = 1
          /\ scene'.added = 1]_vars

----------------------------------------------------------------------------
(* C36: in the hook a transaction-proposed, -confirmed or -rejected event  *)
(* for a hash removes only that hash from pendingTransactions (every other *)
(* entry of the list is still in it afterwards), and a block-finalized     *)
(* event puts its block in front of the recentBlocks held so far, of which *)
(* nine are kept.                                                          *)
C36_HookListsAccumulate ==
    [][/\ (\E i \in 1..Len(received') :
               /\ received'[i].owner = "hook"
               /\ received'[i].method \in {"handleTransactionProposed",
                                           "handleTransactionConfirmed",
                                           "handleTransactionRejected"})
          => \A i \in 1..Len(hook.lists.pendingTransactions) :
                 hook.lists.pendingTransactions[i] # lastOp'.data.payload.txHash
                 => \E j \in 1..Len(hook'.lists.pendingTransactions) :
                        hook'.lists.pendingTransactions[j]
                            = hook.lists.pendingTransactions[i]
       /\ (\E i \in 1..Len(received') :
               /\ received'[i].owner = "hook"
               /\ received'[i].method = "handleBlockFinalized")
          => hook'.lists.recentBlocks
                 = <<lastOp'.data.payload.blockHash>>
                   \o SliceTo(hook.lists.recentBlocks, RecentBlocksKept)]_vars

----------------------------------------------------------------------------
(* C37: the block-timestamp window and the transaction-count window always *)
(* have the same length, min(100, number of blocks processed without       *)
(* error); a block delivered under a hash the map holds is appended to     *)
(* both windows again while the map keeps its size.                        *)
C37_WindowsCountArrivals ==
    /\ [](/\ Len(blockTimestamps) = Len(transactionCounts)
          /\ Len(blockTimestamps) = Min(WindowLimit, Len(arrivals)))
    /\ [][(BlockHandled(lastOp') /\ MapHas(blocks, lastOp'.data.payload.blockHash))
          => /\ Len(blocks') = Len(blocks)
             /\ Len(blockTimestamps') = Min(WindowLimit, Len(blockTimestamps) + 1)
             /\ blockTimestamps'[Len(blockTimestamps')]
                    = DateTime(lastOp'.data.payload.timestamp)
             /\ transactionCounts'[Len(transactionCounts')]
                    = lastOp'.data.payload.transactionCount]_vars

(* More than 100 blocks have been processed under two hashes: the map      *)
(* holds two blocks, the windows 100 entries, the latest of them from a    *)
(* block whose hash was held.                                              *)
C37_Witness ==
    /\ Len(arrivals) > WindowLimit
    /\ Len(blocks) = 2
    /\ Len(blockTimestamps) = WindowLimit
    /\ Len(transactionCounts) = WindowLimit
    /\ BlockHandled(lastOp)
    /\ blockTimestamps[WindowLimit] = DateTime(lastOp.data.payload.timestamp)

----------------------------------------------------------------------------
----------------------------------------------------------------------------
(* C39: a connected service holds a socket; disconnect() leaves the        *)
(* service without socket and not connected, and only the connect event of *)
(* a socket held, which after a disconnect() only a later connect() makes, *)
(* sets connected again.                                                   *)
C39_ConnectedHoldsSocket ==
    /\ [](isConnected => socket # "null")
    /\ [][/\ lastOp'.op = "hookDisconnect" => (~isConnected' /\ socket' = "null")
          /\ (~isConnected /\ isConnected')
             => (lastOp'.op = "onConnect" /\ socket # "null")
          /\ (socket = "null" /\ socket' # "null")
             => lastOp'.op \in {"connect", "hookConnect"}]_vars

(* disconnect() was called on a connected service: the disconnect event    *)
(* fired inside it, the socket is gone and the service is not connected    *)
C39_Witness ==
    /\ lastOp.op = "hookDisconnect"
    /\ EventsOf(emitted, "chainviz-disconnected") # {}
    /\ socket = "null"
    /\ ~isConnected

====
